---- MODULE Spec2Model ----
(***************************************************************************)
(* Model of the section / timestamp inference engine of the podcast        *)
(* pipeline: the proportional chapter estimator (scripts/add_chapters.py), *)
(* the timestamp estimators, the precise side-file loader and the two      *)
(* resolvers (scripts/extract_timestamps.py), the show notes and the feed  *)
(* (scripts/generate_rss.py), the synthesis run with its validation and    *)
(* retries (scripts/parse_and_tts.py) and the chapter writer               *)
(* (add_chapters_to_mp3 of scripts/add_chapters.py).                       *)
(*                                                                         *)
(* The estimators compute  int((segment_count / total_segments) * dur)     *)
(* in Python: a correctly rounded binary64 division, a correctly rounded   *)
(* binary64 multiplication and a truncation.  The arithmetic is modelled   *)
(* bit for bit (53-bit significands, round half to even) on bit sequences, *)
(* because the truncated result differs from floor(count * dur / total)    *)
(* for some inputs.                                                        *)
(***************************************************************************)
EXTENDS Integers, Sequences, FiniteSets, TLC

VARIABLES content, sections, total_duration_ms, date_str, side_file,
          script_papers, digest, episodes, pc, result,
          dialogue, seg_index, seg_text, max_retries, attempt, attempts,
          tmpdir, outfile, segments, skipped, concat, mp3_chapters, tags

vars == <<content, sections, total_duration_ms, date_str, side_file,
          script_papers, digest, episodes, pc, result,
          dialogue, seg_index, seg_text, max_retries, attempt, attempts,
          tmpdir, outfile, segments, skipped, concat, mp3_chapters, tags>>

\* The state of the synthesis run (scripts/parse_and_tts.py): the dialogue lines
\* of the script, the index of the line in work, the text and the retry limit
\* handed to generate_segment, its loop variable, what each of its attempts came
\* to, the files of the temporary directory, the value generate_segment
\* returned, and the segments, skipped and concatenation lists of main.
synthesis == <<dialogue, seg_index, seg_text, max_retries, attempt, attempts,
               tmpdir, outfile, segments, skipped, concat>>

\* The state of the chapter writer (add_chapters_to_mp3): the chapters to write
\* and the ID3 tags of the audio file.
tagging == <<mp3_chapters, tags>>

\* What a call reads and leaves as it is: the script text, its parsed sections,
\* the probed duration, the date and the side file of that date, the papers
\* extracted from the script, the digest of the date and the episodes directory.
estimation == <<content, sections, total_duration_ms, date_str, side_file,
                script_papers, digest, episodes>>

\* What a call of the inference engine leaves as it is: what it reads, and the
\* state of the synthesis run and of the chapter writer.
inputs == <<estimation, synthesis, tagging>>

(***************************************************************************)
(* Bounds of the model.                                                    *)
(***************************************************************************)
\* Largest number of dialogue segments of one section (timing specification).
MaxSegments == 7

\* Largest number of sections of a script (timing specification).
MaxSections == 3

\* Total audio durations in milliseconds the specifications draw from.
Durations == {0, 1, 90, 100, 8000}

\* Python's None.
None == "None"

\* No synthesis run is under way.
NoSynthesis ==
    /\ dialogue = <<>>
    /\ seg_index = 0
    /\ seg_text = <<>>
    /\ max_retries = 0
    /\ attempt = 0
    /\ attempts = <<>>
    /\ tmpdir = <<>>
    /\ outfile = None
    /\ segments = <<>>
    /\ skipped = <<>>
    /\ concat = <<>>

\* The tags of an audio file that has none (audio.tags is None).
NoTags == [none |-> TRUE, frames |-> <<>>]

\* No audio file is being tagged.
NoTagging ==
    /\ mp3_chapters = <<>>
    /\ tags = NoTags

(***************************************************************************)
(* binary64 arithmetic on bit sequences.                                   *)
(***************************************************************************)
\* Significand width of a Python float (IEEE-754 binary64).
MantissaBits == 53

\* 2^i mod m, by repeated squaring.
RECURSIVE PowMod2(_, _)
PowMod2(i, m) ==
    IF i = 0 THEN 1 % m
    ELSE LET h == PowMod2(i \div 2, m)
         IN  (h * h * (IF i % 2 = 1 THEN 2 ELSE 1)) % m

\* Smallest k >= 0 with c * 2^k >= t, for 0 < c <= t.
RECURSIVE NormShift(_, _)
NormShift(c, t) == IF c >= t THEN 0 ELSE 1 + NormShift(2 * c, t)

\* Binary long division of r by t (t <= r < 2t): the doubled remainder before
\* quotient bit i (bit 0 first), which is r for i = 0 and 2 * (r * 2^(i-1) mod t)
\* after; quotient bit i is 1 iff it is at least t.
DivRem(r, t, i) == IF i = 0 THEN r ELSE 2 * ((r * PowMod2(i - 1, t)) % t)

\* The first n quotient bits of r / t, most significant first, and the doubled
\* remainder left after them.
LongDiv(r, t, n) ==
    [bits |-> [i \in 1..n |-> IF DivRem(r, t, i - 1) >= t THEN 1 ELSE 0],
     rem |-> DivRem(r, t, n)]

\* bits + 1, on a most-significant-first bit sequence (one bit longer on overflow).
IncBits(bits) ==
    LET zeros == {i \in 1..Len(bits) : bits[i] = 0}
    IN  IF zeros = {} THEN <<1>> \o [i \in 1..Len(bits) |-> 0]
        ELSE LET j == CHOOSE i \in zeros : \A h \in zeros : h <= i
             IN  [i \in 1..Len(bits) |->
                    IF i < j THEN bits[i] ELSE IF i = j THEN 1 ELSE 0]

\* The integer a most-significant-first bit sequence (of at most 30 bits) denotes.
RECURSIVE IntOfBits(_)
IntOfBits(bits) ==
    IF Len(bits) = 0 THEN 0
    ELSE IF Len(bits) = 1 THEN bits[1]
    ELSE LET h == Len(bits) \div 2
         IN  IntOfBits(SubSeq(bits, 1, h)) * 2^(Len(bits) - h)
             + IntOfBits(SubSeq(bits, h + 1, Len(bits)))

\* Bit j (0 is the least significant) of the natural number n.
Bit(n, j) == (n \div 2^j) % 2

\* The number of bits of the natural number n < 2^30.
BitLen(n) == CHOOSE l \in 0..30 : n < 2^l /\ (l = 0 \/ n >= 2^(l - 1))

\* The bits of the natural number n < 2^30, most significant first (<<>> for 0).
BitsOfInt(n) == [i \in 1..BitLen(n) |-> Bit(n, BitLen(n) - i)]

\* c / t as Python computes it for ints 0 < c <= t: the correctly rounded binary64
\* quotient, as a 53-bit significand m (most significant first) and a shift sh with
\* value m * 2^(-sh).
TrueDiv(c, t) ==
    LET k == NormShift(c, t)
        d == LongDiv(c * 2^k, t, MantissaBits)
        up == d.rem > t \/ (d.rem = t /\ d.bits[MantissaBits] = 1)
        m == IF up THEN IncBits(d.bits) ELSE d.bits
    IN  IF Len(m) > MantissaBits
        THEN [m |-> SubSeq(m, 1, MantissaBits), sh |-> MantissaBits - 1 + k - 1]
        ELSE [m |-> m, sh |-> MantissaBits - 1 + k]

\* limbs * d, limbs a most-significant-first sequence of 9-bit digits and
\* 0 < d < 2^21: the product's 9-bit digits and the carry out of the first one.
\* j runs from the last digit to the first.
RECURSIVE MulLimbs(_, _, _, _, _)
MulLimbs(limbs, d, j, carry, acc) ==
    IF j = 0 THEN [carry |-> carry, limbs |-> acc]
    ELSE LET t == limbs[j] * d + carry
         IN  MulLimbs(limbs, d, j - 1, t \div 512, <<t % 512>> \o acc)

\* The exact product of the bit sequence m (most significant first, leading 1) and
\* the natural number d, 0 < d < 2^21, most significant first with a leading 1.
MulBits(m, d) ==
    LET pad == (9 - (Len(m) % 9)) % 9
        padded == [i \in 1..pad |-> 0] \o m
        n == Len(padded) \div 9
        limbs == [j \in 1..n |-> IntOfBits(SubSeq(padded, 9 * (j - 1) + 1, 9 * j))]
        p == MulLimbs(limbs, d, n, 0, <<>>)
        bits == BitsOfInt(p.carry)
                \o [i \in 1..(9 * n) |-> Bit(p.limbs[(i - 1) \div 9 + 1], 8 - ((i - 1) % 9))]
        first == CHOOSE i \in 1..Len(bits) : bits[i] = 1 /\ \A h \in 1..(i - 1) : bits[h] = 0
    IN  SubSeq(bits, first, Len(bits))

\* A bit sequence (most significant first, leading 1) rounded to 53 significant
\* bits, half to even: the kept bits and the number s of bits dropped.
RoundBits(p) ==
    IF Len(p) <= MantissaBits THEN [m |-> p, s |-> 0]
    ELSE LET s == Len(p) - MantissaBits
             kept == SubSeq(p, 1, MantissaBits)
             guard == p[MantissaBits + 1]
             sticky == \E i \in (MantissaBits + 2)..Len(p) : p[i] = 1
             up == guard = 1 /\ (sticky \/ kept[MantissaBits] = 1)
         IN  [m |-> IF up THEN IncBits(kept) ELSE kept, s |-> s]

\* FloatShare with the share rounded up instead of truncated.
FloatShareCeil(c, t, d) == (c * d + t - 1) \div t

\* int((c / t) * d) as Python computes it for ints 0 <= c <= t, 0 < t,
\* 0 <= d < 2^21: the quotient rounded to binary64, the product rounded to
\* binary64, the result truncated.
FloatShare(c, t, d) ==
    IF c = 0 \/ d = 0 THEN 0
    ELSE LET q == TrueDiv(c, t)
             p == RoundBits(MulBits(q.m, d))
             drop == q.sh - p.s
         IN  IF drop >= Len(p.m) THEN 0
             ELSE IntOfBits(SubSeq(p.m, 1, Len(p.m) - drop))

\* FloatShare tabulated over the inputs the specifications draw from, so that each
\* share is computed once.
ShareTable ==
    [c \in 0..MaxSegments, t \in 1..(MaxSegments * MaxSections), d \in Durations |->
        IF c <= t THEN FloatShare(c, t, d) ELSE 0]

\* int((section['segment_count'] / total_segments) * total_duration_ms)
segment_duration(c, t, d) == ShareTable[c, t, d]

(***************************************************************************)
(* Python values.                                                          *)
(***************************************************************************)
\* Whether d.get(key) is a true value, for a key that holds a string when present
\* (a missing key gives None; None and "" are false).
GetTruthyStr(d, key) == key \in DOMAIN d /\ d[key] # None /\ d[key] # ""

\* Whether d.get(key) is a true value, for a key that holds a boolean when present.
GetTruthyBool(d, key) == key \in DOMAIN d /\ d[key] = TRUE

\* A function result that is None or a list: the list is <<>> when none is TRUE.
NoneResult == [none |-> TRUE, list |-> <<>>]

ListResult(l) == [none |-> FALSE, list |-> l]

\* Truth value of a result that is None or a list ([] is false).
TruthyList(r) == ~r.none /\ r.list # <<>>

\* Truth value of a string or None.
TruthyStr(v) == v # None /\ v # ""

\* f"{n:02d}" for n >= 0.
Pad2(n) == IF n < 10 THEN "0" \o ToString(n) ELSE ToString(n)

\* The MM:SS string of a millisecond value (minutes = ms // 60000,
\* seconds = (ms % 60000) // 1000).
Minutes(ms) == ms \div 60000

\* Seconds without the reduction modulo one minute.
SecondsOfTotal(ms) == ms \div 1000

Seconds(ms) == (ms % 60000) \div 1000

FormatMMSS(ms) == Pad2(Minutes(ms)) \o ":" \o Pad2(Seconds(ms))

\* sum(s['segment_count'] for s in sections)
RECURSIVE total_segments(_)
total_segments(secs) ==
    IF secs = <<>> THEN 0
    ELSE secs[1].segment_count + total_segments(Tail(secs))

(***************************************************************************)
(* scripts/add_chapters.py: calculate_chapter_times.                       *)
(***************************************************************************)
\* ChapterWalk with current_ms advanced before the chapter is appended.
RECURSIVE ChapterWalkAdvanceFirst(_, _, _, _, _, _)
ChapterWalkAdvanceFirst(secs, total, duration, i, current_ms, chapters) ==
    IF i > Len(secs) THEN [exc |-> None, chapters |-> chapters]
    ELSE IF total = 0 THEN [exc |-> "ZeroDivisionError", chapters |-> chapters]
    ELSE LET next_ms == current_ms
                        + segment_duration(secs[i].segment_count, total, duration)
         IN  ChapterWalkAdvanceFirst(secs, total, duration, i + 1, next_ms,
                 Append(chapters, [title |-> secs[i].title, start_ms |-> next_ms]))

\* The first loop: one {title, start_ms} per section, current_ms advanced by the
\* truncated share.  The division raises ZeroDivisionError when the total is 0;
\* the walk then ends with exc set.
RECURSIVE ChapterWalk(_, _, _, _, _, _)
ChapterWalk(secs, total, duration, i, current_ms, chapters) ==
    IF i > Len(secs) THEN [exc |-> None, chapters |-> chapters]
    ELSE IF total = 0 THEN [exc |-> "ZeroDivisionError", chapters |-> chapters]
    ELSE ChapterWalk(secs, total, duration, i + 1,
                     current_ms + segment_duration(secs[i].segment_count, total, duration),
                     Append(chapters, [title |-> secs[i].title, start_ms |-> current_ms]))

\* SetEndTimes with every chapter ending at the total duration.
SetEndTimesAllTotal(chapters, duration) ==
    [i \in 1..Len(chapters) |->
        [title |-> chapters[i].title,
         start_ms |-> chapters[i].start_ms,
         end_ms |-> duration]]

\* The second loop: end_ms is the next chapter's start_ms, the last one's is the
\* total duration.
SetEndTimes(chapters, duration) ==
    [i \in 1..Len(chapters) |->
        [title |-> chapters[i].title,
         start_ms |-> chapters[i].start_ms,
         end_ms |-> IF i + 1 <= Len(chapters) THEN chapters[i + 1].start_ms
                    ELSE duration]]

calculate_chapter_times(secs, duration) ==
    LET w == ChapterWalk(secs, total_segments(secs), duration, 1, 0, <<>>)
    IN  IF w.exc # None
        THEN [op |-> "calculate_chapter_times", exc |-> w.exc, value |-> None,
              calls |-> <<>>]
        ELSE [op |-> "calculate_chapter_times", exc |-> None,
              value |-> SetEndTimes(w.chapters, duration), calls |-> <<>>]

(***************************************************************************)
(* scripts/extract_timestamps.py: calculate_proportional_timestamps.       *)
(***************************************************************************)
\* The loop of calculate_proportional_timestamps.
RECURSIVE TimestampWalk(_, _, _, _, _, _)
TimestampWalk(secs, total, duration, i, current_ms, timestamps) ==
    IF i > Len(secs) THEN timestamps
    ELSE TimestampWalk(secs, total, duration, i + 1,
                       IF total > 0
                       THEN current_ms + segment_duration(secs[i].segment_count, total, duration)
                       ELSE current_ms,
                       Append(timestamps, [title |-> secs[i].title,
                                           timestamp_str |-> FormatMMSS(current_ms)]))

\* calculate_proportional_timestamps without the total_segments == 0 return.
CalculateProportionalNoGuard(secs, duration) ==
    TimestampWalk(secs, total_segments(secs), duration, 1, 0, <<>>)

calculate_proportional_timestamps(secs, duration) ==
    IF total_segments(secs) = 0 THEN <<>>
    ELSE TimestampWalk(secs, total_segments(secs), duration, 1, 0, <<>>)

(***************************************************************************)
(* scripts/extract_timestamps.py: load_precise_timestamps.                 *)
(*                                                                         *)
(* The side file <date>-timestamps.json is a record: state is "absent" (no *)
(* such file), "unreadable" (open raises OSError), "malformed" (json.load  *)
(* raises JSONDecodeError) or "array", with items the JSON objects of the  *)
(* array.  An object is a function from its keys to JSON values, a JSON    *)
(* value a record of its type and value.                                   *)
(***************************************************************************)
JInt(n) == [type |-> "int", v |-> n]

JStr(str) == [type |-> "str", v |-> str]

JBool(b) == [type |-> "bool", v |-> b]

\* LoadWalk that stops with KeyError at an item missing title or timestamp_ms.
RECURSIVE LoadWalkRejectIncomplete(_, _, _)
LoadWalkRejectIncomplete(items, i, timestamps) ==
    IF i > Len(items) THEN [exc |-> None, timestamps |-> timestamps]
    ELSE IF "title" \in DOMAIN items[i] /\ "timestamp_ms" \in DOMAIN items[i]
    THEN IF items[i]["timestamp_ms"].type # "int"
         THEN [exc |-> "TypeError", timestamps |-> timestamps]
         ELSE LoadWalkRejectIncomplete(items, i + 1,
                  Append(timestamps,
                         [title |-> items[i]["title"].v,
                          timestamp_str |-> FormatMMSS(items[i]["timestamp_ms"].v)]))
    ELSE [exc |-> "KeyError", timestamps |-> timestamps]

\* The loop of load_precise_timestamps over the items from the i-th on: the list
\* of {title, timestamp_str}, or exc set when `ms // 60000` raises TypeError for a
\* timestamp_ms that is no number.
RECURSIVE LoadWalk(_, _, _)
LoadWalk(items, i, timestamps) ==
    IF i > Len(items) THEN [exc |-> None, timestamps |-> timestamps]
    ELSE IF "title" \in DOMAIN items[i] /\ "timestamp_ms" \in DOMAIN items[i]
    THEN IF items[i]["timestamp_ms"].type # "int"
         THEN [exc |-> "TypeError", timestamps |-> timestamps]
         ELSE LoadWalk(items, i + 1,
                  Append(timestamps,
                         [title |-> items[i]["title"].v,
                          timestamp_str |-> FormatMMSS(items[i]["timestamp_ms"].v)]))
    ELSE LoadWalk(items, i + 1, timestamps)

\* load_precise_timestamps with [] returned where the code returns None.
LoadPreciseEmptyForNone(date, file) ==
    IF ~TruthyStr(date) THEN ListResult(<<>>)
    ELSE IF file.state = "absent" THEN ListResult(<<>>)
    ELSE IF file.state \in {"unreadable", "malformed"} THEN ListResult(<<>>)
    ELSE LET w == LoadWalk(file.items, 1, <<>>)
         IN  IF w.exc # None THEN ListResult(<<>>) ELSE ListResult(w.timestamps)

\* load_precise_timestamps(date_str, episodes_dir): None, or the list of entries.
\* Every exception raised after the existence test is caught and gives None.
load_precise_timestamps(date, file) ==
    IF ~TruthyStr(date) THEN NoneResult
    ELSE IF file.state = "absent" THEN NoneResult
    ELSE IF file.state \in {"unreadable", "malformed"} THEN NoneResult
    ELSE LET w == LoadWalk(file.items, 1, <<>>)
         IN  IF w.exc # None THEN NoneResult ELSE ListResult(w.timestamps)

(***************************************************************************)
(* scripts/extract_timestamps.py: get_paper_timestamps.                    *)
(***************************************************************************)
DEEP == "__deep_dive_timestamps__"

QUICK == "__quick_hits__"

\* Titles the estimation path never takes for a paper section.
StructuralTitles == {"Cold Open", "Outro", "Wrap-Up", "INTRO", "WRAP-UP"}

\* The loop over the loaded entries: the mapping built from them.
RECURSIVE PreciseWalk(_, _, _)
PreciseWalk(precise, i, mapping) ==
    IF i > Len(precise) THEN mapping
    ELSE LET ts == precise[i]
             m1 == IF GetTruthyStr(ts, "paper_name")
                   THEN [mapping EXCEPT ![DEEP] = Append(@, ts.timestamp_str)]
                   ELSE mapping
             m2 == IF GetTruthyBool(ts, "is_quick_hits")
                   THEN (QUICK :> ts.timestamp_str) @@ m1
                   ELSE m1
         IN  PreciseWalk(precise, i + 1, m2)

\* PaperWalk that takes every section passing the first test, whatever its
\* segment_count (no `segment_count >= 2` test).
RECURSIVE PaperWalkAnyDialogue(_, _, _, _, _, _)
PaperWalkAnyDialogue(secs, total, duration, i, current_ms, mapping) ==
    IF i > Len(secs) THEN [exc |-> None, mapping |-> mapping]
    ELSE LET section == secs[i]
             ts_str == FormatMMSS(current_ms)
             m1 == IF \/ TruthyStr(section.paper_name)
                      \/ /\ section.segment_count > 0
                         /\ ~section.is_quick_hits
                         /\ section.title \notin StructuralTitles
                   THEN [mapping EXCEPT ![DEEP] = Append(@, ts_str)]
                   ELSE mapping
             m2 == IF section.is_quick_hits THEN (QUICK :> ts_str) @@ m1 ELSE m1
         IN  IF total = 0 THEN [exc |-> "ZeroDivisionError", mapping |-> m2]
             ELSE PaperWalkAnyDialogue(secs, total, duration, i + 1,
                      current_ms + segment_duration(section.segment_count, total, duration),
                      m2)

\* The loop of the estimation path over the sections from the i-th on.
RECURSIVE PaperWalk(_, _, _, _, _, _)
PaperWalk(secs, total, duration, i, current_ms, mapping) ==
    IF i > Len(secs) THEN [exc |-> None, mapping |-> mapping]
    ELSE LET section == secs[i]
             ts_str == FormatMMSS(current_ms)
             m1 == IF /\ \/ TruthyStr(section.paper_name)
                         \/ /\ section.segment_count > 0
                            /\ ~section.is_quick_hits
                            /\ section.title \notin StructuralTitles
                      /\ \/ TruthyStr(section.paper_name)
                         \/ section.segment_count >= 2
                   THEN [mapping EXCEPT ![DEEP] = Append(@, ts_str)]
                   ELSE mapping
             m2 == IF section.is_quick_hits THEN (QUICK :> ts_str) @@ m1 ELSE m1
         IN  IF total = 0 THEN [exc |-> "ZeroDivisionError", mapping |-> m2]
             ELSE PaperWalk(secs, total, duration, i + 1,
                      current_ms + segment_duration(section.segment_count, total, duration),
                      m2)

\* The estimation path (lines 199-224): the script is parsed, the duration probed,
\* {} returned when there is no dialogue segment, else the walk's mapping.
EstimatePaperTimestamps(secs, duration, calls) ==
    LET called == calls \o <<"parse_script_sections", "MP3">>
    IN  IF total_segments(secs) = 0
        THEN [exc |-> None, value |-> <<>>, calls |-> called]
        ELSE LET w == PaperWalk(secs, total_segments(secs), duration, 1, 0,
                                (DEEP :> <<>>))
             IN  [exc |-> w.exc,
                  value |-> IF w.exc = None THEN w.mapping ELSE <<>>,
                  calls |-> called]

\* get_paper_timestamps that reads paper_name and is_quick_hits from the side
\* file's objects and carries the mapping built from them into the estimation.
GetPaperTimestampsMerged(secs, duration, date, file) ==
    LET called == <<"load_precise_timestamps", "parse_script_sections", "MP3">>
        quick == IF file.state = "array"
                 THEN {i \in 1..Len(file.items) :
                         /\ "is_quick_hits" \in DOMAIN file.items[i]
                         /\ "timestamp_ms" \in DOMAIN file.items[i]
                         /\ file.items[i]["timestamp_ms"].type = "int"}
                 ELSE {}
        start == IF quick = {} THEN (DEEP :> <<>>)
                 ELSE LET i == CHOOSE i \in quick : TRUE
                      IN  (QUICK :> FormatMMSS(file.items[i]["timestamp_ms"].v))
                          @@ (DEEP :> <<>>)
    IN  IF total_segments(secs) = 0
        THEN [exc |-> None, value |-> <<>>, calls |-> called]
        ELSE [exc |-> None,
              value |-> PaperWalk(secs, total_segments(secs), duration, 1, 0,
                                  start).mapping,
              calls |-> called]

\* get_paper_timestamps(mp3_path, script_path, date_str): the returned mapping and
\* the functions called on the way, in order.
get_paper_timestamps(secs, duration, date, file) ==
    IF TruthyStr(date)
    THEN LET precise == load_precise_timestamps(date, file)
             mapping == PreciseWalk(precise.list, 1, (DEEP :> <<>>))
         IN  IF TruthyList(precise) /\ mapping[DEEP] # <<>>
             THEN [exc |-> None, value |-> mapping,
                   calls |-> <<"load_precise_timestamps">>]
             ELSE EstimatePaperTimestamps(secs, duration, <<"load_precise_timestamps">>)
    ELSE EstimatePaperTimestamps(secs, duration, <<>>)

(***************************************************************************)
(* scripts/extract_timestamps.py: extract_timestamps.                      *)
(***************************************************************************)
\* extract_timestamps that takes any list the loader returns, the empty one
\* included (`is not None` for the truth test).
ExtractTimestampsNotNone(secs, duration, date, file) ==
    LET precise == load_precise_timestamps(date, file)
    IN  IF TruthyStr(date) /\ ~precise.none
        THEN [exc |-> None, value |-> precise.list,
              calls |-> <<"load_precise_timestamps">>]
        ELSE [exc |-> None,
              value |-> calculate_proportional_timestamps(secs, duration),
              calls |-> <<"parse_script_sections", "calculate_proportional_timestamps">>]

\* extract_timestamps that appends the estimate to the loaded entries.
ExtractTimestampsMerged(secs, duration, date, file) ==
    LET precise == load_precise_timestamps(date, file)
    IN  [exc |-> None,
         value |-> precise.list \o calculate_proportional_timestamps(secs, duration),
         calls |-> <<"load_precise_timestamps", "parse_script_sections",
                     "calculate_proportional_timestamps">>]

\* extract_timestamps(mp3_path, script_path, date_str): the returned list and the
\* functions called on the way, in order.
extract_timestamps(secs, duration, date, file) ==
    LET fallback(calls) ==
            [exc |-> None,
             value |-> calculate_proportional_timestamps(secs, duration),
             calls |-> calls \o <<"parse_script_sections",
                                   "calculate_proportional_timestamps">>]
    IN  IF TruthyStr(date)
        THEN LET precise == load_precise_timestamps(date, file)
             IN  IF TruthyList(precise)
                 THEN [exc |-> None, value |-> precise.list,
                       calls |-> <<"load_precise_timestamps">>]
                 ELSE fallback(<<"load_precise_timestamps">>)
        ELSE fallback(<<>>)

(***************************************************************************)
(* Text: a script is a string, and the regular expressions and string      *)
(* methods of the parsers are computed on its characters.  Positions count *)
(* from 1; a character is a string of length 1.                            *)
(***************************************************************************)
\* The characters str.strip() removes and \s matches.
Whitespace == {" ", "\t", "\n", "\r", "\f"}

\* The characters \d matches.
Digit == {"0", "1", "2", "3", "4", "5", "6", "7", "8", "9"}

UpperString == "ABCDEFGHIJKLMNOPQRSTUVWXYZ"

LowerString == "abcdefghijklmnopqrstuvwxyz"

\* The characters [A-Z] matches.
Upper == {SubSeq(UpperString, k, k) : k \in 1..Len(UpperString)}

Lower == {SubSeq(LowerString, k, k) : k \in 1..Len(LowerString)}

\* The characters \w matches.
WordChar == Upper \cup Lower \cup Digit \cup {"_"}

\* The characters [—–-] matches; of the three dashes only the hyphen can be
\* written in a string of the model.
Dash == {"-"}

\* The characters the class ["""] of the name patterns matches.
Quote == {"\""}

Min(S) == CHOOSE x \in S : \A y \in S : x <= y

\* s[i-1], or "" outside of s.
Ch(s, i) == IF 1 <= i /\ i <= Len(s) THEN SubSeq(s, i, i) ELSE ""

\* s[i-1:j]
Slice(s, i, j) == IF i > j \/ i > Len(s) THEN "" ELSE SubSeq(s, i, Min({j, Len(s)}))

\* The literal lit stands in s at position i.
AtLit(s, i, lit) ==
    /\ i >= 1
    /\ i + Len(lit) - 1 <= Len(s)
    /\ SubSeq(s, i, i + Len(lit) - 1) = lit

\* The lower-case letter of every upper-case letter.
LowerOf ==
    [c \in Upper |->
        Ch(LowerString, CHOOSE k \in 1..Len(UpperString) : Ch(UpperString, k) = c)]

\* c.lower() of a character.
ToLower(c) == IF c \in Upper THEN LowerOf[c] ELSE c

\* The literal lit stands in s at position i, whatever the case of the letters
\* (re.IGNORECASE, and `in` after lower()).
AtLitIgnoreCase(s, i, lit) ==
    /\ i >= 1
    /\ i + Len(lit) - 1 <= Len(s)
    /\ \A k \in 1..Len(lit) : ToLower(Ch(s, i + k - 1)) = ToLower(Ch(lit, k))

\* The end of the longest run of characters of class from position i on: the
\* first position not in the run (a greedy class*).
RunEnd(s, i, class) ==
    CHOOSE j \in i..(Len(s) + 1) :
        Ch(s, j) \notin class /\ \A k \in i..(j - 1) : Ch(s, k) \in class

\* The first position from i on that holds a character of class, Len(s) + 1 if
\* there is none (a greedy [^class]*).
RunEndNot(s, i, class) ==
    Min({j \in i..(Len(s) + 1) : j = Len(s) + 1 \/ Ch(s, j) \in class})

\* All of s from position i on is white space (\s*$ matches at i).
OnlySpaceFrom(s, i) == \A j \in i..Len(s) : Ch(s, j) \in Whitespace

\* s.strip()
Strip(s) ==
    LET first == RunEnd(s, 1, Whitespace)
        last == CHOOSE j \in first..Len(s) :
                    Ch(s, j) \notin Whitespace /\ OnlySpaceFrom(s, j + 1)
    IN  IF first > Len(s) THEN "" ELSE SubSeq(s, first, last)

\* s.rstrip('.')
RStripDots(s) ==
    LET keep == {i \in 1..Len(s) : Ch(s, i) # "." /\ \A j \in (i + 1)..Len(s) : Ch(s, j) = "."}
    IN  IF keep = {} THEN "" ELSE SubSeq(s, 1, CHOOSE i \in keep : TRUE)

\* The positions where ^ matches under re.MULTILINE (before a character): the
\* first, and those after a line break.
LineStarts(s) ==
    (IF s = "" THEN {} ELSE {1})
    \cup {i + 1 : i \in {j \in 1..(Len(s) - 1) : Ch(s, j) = "\n"}}

\* The members of a set of numbers in increasing order.
SortedSeq(S) ==
    [k \in 1..Cardinality(S) |-> CHOOSE x \in S : Cardinality({y \in S : y <= x}) = k]

\* re.split(r'^<marker>', s, flags=re.MULTILINE)[1:] for a literal marker: the
\* texts that follow each marker at a line start, up to the next such marker.
PartsAfterFirst(s, marker) ==
    LET hs == SortedSeq({i \in LineStarts(s) : AtLit(s, i, marker)})
    IN  [k \in 1..Len(hs) |->
            Slice(s, hs[k] + Len(marker),
                  IF k < Len(hs) THEN hs[k + 1] - 1 ELSE Len(s))]

\* lines[0].strip() for lines = part.strip().split('\n')
TitleOfPart(part) ==
    LET p == Strip(part) IN Strip(Slice(p, 1, RunEndNot(p, 1, {"\n"}) - 1))

\* '\n'.join(lines[1:]) for lines = part.strip().split('\n')
BodyOfPart(part) ==
    LET p == Strip(part) IN Slice(p, RunEndNot(p, 1, {"\n"}) + 1, Len(p))

\* The pattern \*\*\w+\*\*: matches in s at position i.
TagAt(s, i) ==
    /\ AtLit(s, i, "**")
    /\ LET e == RunEnd(s, i + 2, WordChar)
       IN  e > i + 2 /\ AtLit(s, e, "**:")

\* len(re.findall(r'\*\*\w+\*\*:', s)): two matches never overlap, so every
\* position where the pattern matches is one match.
CountTags(s) == Cardinality({i \in 1..Len(s) : TagAt(s, i)})

\* The pattern \(\d+ (?:min|sec)(?:, [^)]+)?\)\s*$ matches in t at position q.
AnnotationAt(t, q) ==
    /\ Ch(t, q) = "("
    /\ LET d == RunEnd(t, q + 1, Digit)
           r == d + 4
           e == RunEndNot(t, r + 2, {")"})
       IN  /\ d > q + 1
           /\ AtLit(t, d, " min") \/ AtLit(t, d, " sec")
           /\ \/ Ch(t, r) = ")" /\ OnlySpaceFrom(t, r + 1)
              \/ /\ AtLit(t, r, ", ")
                 /\ e > r + 2
                 /\ Ch(t, e) = ")"
                 /\ OnlySpaceFrom(t, e + 1)

\* re.sub(r'\s*\(\d+ (?:min|sec)(?:, [^)]+)?\)\s*$', '', title): the leftmost
\* match starts with the white space before its parenthesis, runs to the end of
\* the title and is cut off.
CleanTitle(title) ==
    LET found == {q \in 1..Len(title) : AnnotationAt(title, q)}
        start == CHOOSE p \in 1..Min(found) :
                    /\ \A k \in p..(Min(found) - 1) : Ch(title, k) \in Whitespace
                    /\ Ch(title, p - 1) \notin Whitespace
    IN  IF found = {} THEN title ELSE Slice(title, 1, start - 1)

(***************************************************************************)
(* scripts/extract_timestamps.py: parse_script_sections and its three      *)
(* strategies.                                                             *)
(***************************************************************************)
\* m.group(1).strip() for a pattern ending in \s*(.+) whose \s* starts at position
\* i of a title: None when nothing is left for the group.
GroupToEnd(t, i) == IF i > Len(t) THEN None ELSE Strip(Slice(t, i, Len(t)))

\* The position after the dash when SEGMENT:\s*PAPER\s*\d+\s*[—–-] matches in s at
\* position i, else 0; the letters in any case when ignorecase is set.
SegmentPaperEnd(s, i, ignorecase) ==
    LET lit(j, word) == IF ignorecase THEN AtLitIgnoreCase(s, j, word)
                        ELSE AtLit(s, j, word)
        a == RunEnd(s, i + 8, Whitespace)
        b == RunEnd(s, a + 5, Whitespace)
        c == RunEnd(s, b, Digit)
        d == RunEnd(s, c, Whitespace)
    IN  IF /\ lit(i, "SEGMENT:")
           /\ lit(a, "PAPER")
           /\ c > b
           /\ Ch(s, d) \in Dash
        THEN d + 1
        ELSE 0

\* The pattern ^### SEGMENT:\s*PAPER\s*\d+\s*[—–-]\s*(.+) matches in s at the line
\* start i: after the dash and white space, one character that is no line break.
SegmentHeaderAt(s, i) ==
    /\ AtLit(s, i, "### ")
    /\ LET e == SegmentPaperEnd(s, i + 4, FALSE)
       IN  /\ e > 0
           /\ \E f \in e..RunEnd(s, e, Whitespace) : f <= Len(s) /\ Ch(s, f) # "\n"

\* The pattern ^## Deep Dives\s*$ matches in s at the line start i (re.MULTILINE):
\* the header, then white space up to a line break or the end of the text.
DeepDivesHeaderAt(s, i) ==
    /\ AtLit(s, i, "## Deep Dives")
    /\ \E k \in (i + 13)..RunEnd(s, i + 13, Whitespace) :
            k = Len(s) + 1 \/ Ch(s, k) = "\n"

\* The paper name of a title by r'SEGMENT:\s*PAPER\s*\d+\s*[—–-]\s*(.+)'.
SegmentPaperName(title) ==
    LET e == SegmentPaperEnd(title, 1, TRUE)
    IN  IF e = 0 THEN None ELSE GroupToEnd(title, e)

\* _parse_segment_format(content)
parse_segment_format(text) ==
    LET parts == PartsAfterFirst(text, "### ")
    IN  [k \in 1..Len(parts) |->
            LET title == TitleOfPart(parts[k])
            IN  [title |-> CleanTitle(title),
                 segment_count |-> CountTags(BodyOfPart(parts[k])),
                 paper_name |-> SegmentPaperName(title),
                 is_quick_hits |-> FALSE]]

\* The group of (?:called|titled|paper[—–-]|it\'s)\s+["""]?([A-Z][^""".,]{10,60})
\* when the pattern matches in s at position i, else None.
CalledNameAt(s, i) ==
    LET cues == {cue \in {"called", "titled", "paper-", "it's"} : AtLit(s, i, cue)}
    IN  IF cues = {} THEN None
        ELSE LET a == i + Len(CHOOSE cue \in cues : TRUE)
                 b == RunEnd(s, a, Whitespace)
                 c == IF Ch(s, b) \in Quote THEN b + 1 ELSE b
                 n == Min({RunEndNot(s, c + 1, Quote \cup {".", ","}), c + 61})
             IN  IF b > a /\ Ch(s, c) \in Upper /\ n - (c + 1) >= 10
                 THEN SubSeq(s, c, n - 1)
                 ELSE None

\* The group of
\* (?:paper|research|study)(?:\s+is)?\s+(?:about\s+)?["""]([^"""]{10,60})["""]
\* when the pattern matches in s at position i, else None.
QuotedNameAt(s, i) ==
    LET cues == {cue \in {"paper", "research", "study"} : AtLit(s, i, cue)}
    IN  IF cues = {} THEN None
        ELSE LET a == i + Len(CHOOSE cue \in cues : TRUE)
                 a1 == RunEnd(s, a, Whitespace)
                 x == IF a1 > a /\ AtLit(s, a1, "is") THEN a1 + 2 ELSE a
                 w == RunEnd(s, x, Whitespace)
                 w1 == RunEnd(s, w + 5, Whitespace)
                 y == IF AtLit(s, w, "about") /\ w1 > w + 5 THEN w1 ELSE w
                 z == RunEndNot(s, y + 1, Quote)
             IN  IF /\ w > x
                    /\ Ch(s, y) \in Quote
                    /\ z <= Len(s)
                    /\ z - (y + 1) >= 10
                    /\ z - (y + 1) <= 60
                 THEN SubSeq(s, y + 1, z - 1)
                 ELSE None

\* _extract_paper_name_from_dialogue(block): the leftmost match of the first
\* pattern, else of the second, stripped; None without a match.
extract_paper_name_from_dialogue(block) ==
    LET called == {i \in 1..Len(block) : CalledNameAt(block, i) # None}
        quoted == {i \in 1..Len(block) : QuotedNameAt(block, i) # None}
    IN  IF called # {} THEN RStripDots(Strip(CalledNameAt(block, Min(called))))
        ELSE IF quoted # {} THEN RStripDots(Strip(QuotedNameAt(block, Min(quoted))))
        ELSE None

\* The pattern \n---+\n matches in s at position i.
DividerAt(s, i) ==
    /\ Ch(s, i) = "\n"
    /\ LET e == RunEnd(s, i + 1, {"-"})
       IN  e >= i + 4 /\ Ch(s, e) = "\n"

\* re.split(r'\n---+\n', s) from position i on: the matches are taken from left
\* to right, each after the end of the one before.
RECURSIVE SplitDividers(_, _)
SplitDividers(s, i) ==
    LET found == {j \in i..Len(s) : DividerAt(s, j)}
    IN  IF found = {} THEN <<Slice(s, i, Len(s))>>
        ELSE LET j == Min(found)
             IN  <<Slice(s, i, j - 1)>>
                 \o SplitDividers(s, RunEnd(s, j + 1, {"-"}) + 1)

\* The sections of the per-paper blocks of a "Deep Dives" body from the k-th
\* block on: blocks that are empty or hold no speaker tag give nothing.
RECURSIVE BlockSections(_, _)
BlockSections(blocks, k) ==
    IF k > Len(blocks) THEN <<>>
    ELSE LET block == Strip(blocks[k])
             paper_name == extract_paper_name_from_dialogue(block)
         IN  (IF block = "" \/ CountTags(block) = 0 THEN <<>>
              ELSE <<[title |-> IF TruthyStr(paper_name) THEN paper_name
                                ELSE "Deep Dive",
                      segment_count |-> CountTags(block),
                      paper_name |-> paper_name,
                      is_quick_hits |-> FALSE]>>)
             \o BlockSections(blocks, k + 1)

\* 'quick hit' in title.lower()
HasQuickHit(title) == \E i \in 1..Len(title) : AtLitIgnoreCase(title, i, "quick hit")

\* section_title.lower() == 'deep dives'
IsDeepDives(title) ==
    Len(title) = Len("deep dives") /\ AtLitIgnoreCase(title, 1, "deep dives")

\* The sections of the top-level parts from the k-th on (_parse_deep_dives_block).
RECURSIVE TopPartSections(_, _)
TopPartSections(parts, k) ==
    IF k > Len(parts) THEN <<>>
    ELSE LET section_title == TitleOfPart(parts[k])
             body == BodyOfPart(parts[k])
         IN  (IF IsDeepDives(section_title)
              THEN BlockSections(SplitDividers(body, 1), 1)
              ELSE <<[title |-> section_title,
                      segment_count |-> CountTags(body),
                      paper_name |-> None,
                      is_quick_hits |-> HasQuickHit(section_title)]>>)
             \o TopPartSections(parts, k + 1)

\* _parse_deep_dives_block(content)
parse_deep_dives_block(text) == TopPartSections(PartsAfterFirst(text, "## "), 1)

\* The paper name of a title by r'Deep Dive\s*\d*(?:\s*\([^)]*\))?:\s*(.+)'
\* (re.match, re.IGNORECASE), None without a match.
DeepDiveName(t) ==
    LET c == RunEnd(t, RunEnd(t, 10, Whitespace), Digit)
        d == RunEnd(t, c, Whitespace)
        e == RunEndNot(t, d + 1, {")"})
    IN  IF ~AtLitIgnoreCase(t, 1, "Deep Dive") THEN None
        ELSE IF Ch(t, c) = ":" THEN GroupToEnd(t, c + 1)
        ELSE IF Ch(t, d) = "(" /\ Ch(t, e) = ")" /\ Ch(t, e + 1) = ":"
        THEN GroupToEnd(t, e + 2)
        ELSE None

\* The paper name of a title by r'Paper\s*\d+:\s*(.+)' (re.match, re.IGNORECASE),
\* None without a match.
PaperNumberName(t) ==
    LET b == RunEnd(t, 6, Whitespace)
        c == RunEnd(t, b, Digit)
    IN  IF AtLitIgnoreCase(t, 1, "Paper") /\ c > b /\ Ch(t, c) = ":"
        THEN GroupToEnd(t, c + 1)
        ELSE None

\* The paper name of a cleaned title: the first of the two patterns that matches.
StandardPaperName(clean_title) ==
    IF DeepDiveName(clean_title) # None THEN DeepDiveName(clean_title)
    ELSE PaperNumberName(clean_title)

\* _parse_standard_sections that also takes the text before the first header for
\* a section (parts instead of parts[1:]).
ParseStandardWithPreamble(text) ==
    LET heads == {i \in LineStarts(text) : AtLit(text, i, "## ")}
        preamble == IF heads = {} THEN text ELSE Slice(text, 1, Min(heads) - 1)
        parts == <<preamble>> \o PartsAfterFirst(text, "## ")
    IN  [k \in 1..Len(parts) |->
            LET clean_title == CleanTitle(TitleOfPart(parts[k]))
            IN  [title |-> clean_title,
                 segment_count |-> CountTags(BodyOfPart(parts[k])),
                 paper_name |-> StandardPaperName(clean_title),
                 is_quick_hits |-> HasQuickHit(clean_title)]]

\* _parse_standard_sections(content)
parse_standard_sections(text) ==
    LET parts == PartsAfterFirst(text, "## ")
    IN  [k \in 1..Len(parts) |->
            LET clean_title == CleanTitle(TitleOfPart(parts[k]))
            IN  [title |-> clean_title,
                 segment_count |-> CountTags(BodyOfPart(parts[k])),
                 paper_name |-> StandardPaperName(clean_title),
                 is_quick_hits |-> HasQuickHit(clean_title)]]

\* parse_script_sections that looks for the "Deep Dives" header before the segment
\* headers.
ParseDeepDivesFirst(text) ==
    IF \E i \in LineStarts(text) : DeepDivesHeaderAt(text, i)
    THEN [exc |-> None, value |-> parse_deep_dives_block(text),
          calls |-> <<"_parse_deep_dives_block">>]
    ELSE IF \E i \in LineStarts(text) : SegmentHeaderAt(text, i)
    THEN [exc |-> None, value |-> parse_segment_format(text),
          calls |-> <<"_parse_segment_format">>]
    ELSE [exc |-> None, value |-> parse_standard_sections(text),
          calls |-> <<"_parse_standard_sections">>]

\* parse_script_sections(script_path) on the text of the script: the sections and
\* the strategy called.
parse_script_sections(text) ==
    IF \E i \in LineStarts(text) : SegmentHeaderAt(text, i)
    THEN [exc |-> None, value |-> parse_segment_format(text),
          calls |-> <<"_parse_segment_format">>]
    ELSE IF \E i \in LineStarts(text) : DeepDivesHeaderAt(text, i)
    THEN [exc |-> None, value |-> parse_deep_dives_block(text),
          calls |-> <<"_parse_deep_dives_block">>]
    ELSE [exc |-> None, value |-> parse_standard_sections(text),
          calls |-> <<"_parse_standard_sections">>]

(***************************************************************************)
(* scripts/add_chapters.py: the parser of the chapter builder.             *)
(***************************************************************************)
\* add_chapters.parse_script_sections(script_path) on the text of the script:
\* one section per "## " header, whatever the dialect.
add_chapters_parse_script_sections(text) ==
    LET parts == PartsAfterFirst(text, "## ")
    IN  [k \in 1..Len(parts) |->
            [title |-> CleanTitle(TitleOfPart(parts[k])),
             segment_count |-> CountTags(BodyOfPart(parts[k]))]]

(***************************************************************************)
(* add_chapters_to_mp3.  The tags of the audio file are the dictionary of  *)
(* the tag library: frames in the order they were added, one per key, the  *)
(* key of a frame being its kind, followed for a chapter or a table of     *)
(* contents by ":" and its element id.                                     *)
(***************************************************************************)
\* The tags that hold these frames.
Tags(frames) == [none |-> FALSE, frames |-> frames]

\* f'chp{i}'
ChapId(i) == "chp" \o ToString(i)

\* CHAP(element_id=chap_id, start_time=..., end_time=..., start_offset=0xFFFFFFFF,
\*      end_offset=0xFFFFFFFF, sub_frames=[TIT2(encoding=3, text=[title])])
CHAP(chap_id, ch) ==
    [key |-> "CHAP:" \o chap_id, element_id |-> chap_id,
     start_time |-> ch.start_ms, end_time |-> ch.end_ms,
     start_offset |-> "0xFFFFFFFF", end_offset |-> "0xFFFFFFFF",
     title |-> ch.title]

\* CTOC(element_id='toc', flags=TOP_LEVEL | ORDERED, child_element_ids=chap_ids,
\*      sub_frames=[TIT2(encoding=3, text=['Table of Contents'])])
CTOC(chap_ids) ==
    [key |-> "CTOC:toc", element_id |-> "toc", flags |-> 3,
     child_element_ids |-> chap_ids, title |-> "Table of Contents"]

\* tags.add(frame): the frame takes the place of the one with its key, or comes
\* last.
TagsAdd(frames, frame) ==
    IF \E i \in 1..Len(frames) : frames[i].key = frame.key
    THEN [i \in 1..Len(frames) |->
            IF frames[i].key = frame.key THEN frame ELSE frames[i]]
    ELSE Append(frames, frame)

\* k.startswith('CHAP') or k.startswith('CTOC')
IsChapterKey(k) == AtLit(k, 1, "CHAP") \/ AtLit(k, 1, "CTOC")

\* The frames left when those of to_remove are deleted (lines 88-90).
RECURSIVE WithoutChapterFrames(_)
WithoutChapterFrames(frames) ==
    IF frames = <<>> THEN <<>>
    ELSE (IF IsChapterKey(frames[1].key) THEN <<>> ELSE <<frames[1]>>)
         \o WithoutChapterFrames(Tail(frames))

\* The loop over the chapters from the i-th on (lines 93-107), i counted from 1
\* for chapter i - 1: the frames and the ids collected.
RECURSIVE AddChapFrames(_, _, _, _)
AddChapFrames(frames, chap_ids, chs, i) ==
    IF i > Len(chs) THEN [frames |-> frames, chap_ids |-> chap_ids]
    ELSE AddChapFrames(TagsAdd(frames, CHAP(ChapId(i - 1), chs[i])),
                       Append(chap_ids, ChapId(i - 1)), chs, i + 1)

\* add_chapters_to_mp3 that does not delete the chapter frames it finds.
AddChaptersKeepOld(tg, chs) ==
    LET added == AddChapFrames(IF tg.none THEN <<>> ELSE tg.frames, <<>>, chs, 1)
    IN  Tags(TagsAdd(added.frames, CTOC(added.chap_ids)))

\* add_chapters_to_mp3(mp3_path, chapters): the tags saved to the audio file.
add_chapters_to_mp3(tg, chs) ==
    LET kept == WithoutChapterFrames(IF tg.none THEN <<>> ELSE tg.frames)
        added == AddChapFrames(kept, <<>>, chs, 1)
    IN  Tags(TagsAdd(added.frames, CTOC(added.chap_ids)))

(***************************************************************************)
(* scripts/generate_rss.py: the show notes of an episode.                  *)
(* extract_papers_from_script, extract_papers_from_digest and              *)
(* load_digest_papers read files; the model takes what they return.        *)
(***************************************************************************)
\* What the two extractors return when they find no paper: (None, [], []).
NoPapers == [lead |-> None, deep_dives |-> <<>>, quick_hits |-> <<>>]

\* What load_digest_papers and extract_papers_from_digest return when there is
\* no digest file for the date.
NoDigest == [papers |-> <<>>] @@ NoPapers

\* What an extractor returns for its two lists: (lead, deep_dives, quick_hits)
\* with lead = deep_dives[0] if deep_dives else None.
Papers(deep_dives, quick_hits) ==
    [lead |-> IF deep_dives = <<>> THEN None ELSE deep_dives[1],
     deep_dives |-> deep_dives, quick_hits |-> quick_hits]

\* The bullet U+2022 and the dash U+2014 of the listing, written in ASCII.
Bullet == "*"

EmDash == "-"

\* s.lower()
RECURSIVE LowerStr(_)
LowerStr(s) ==
    IF Len(s) <= 1 THEN ToLower(s)
    ELSE LowerStr(SubSeq(s, 1, Len(s) \div 2))
         \o LowerStr(SubSeq(s, Len(s) \div 2 + 1, Len(s)))

\* sub in s
Contains(s, sub) == \E i \in 1..(Len(s) + 1) : AtLit(s, i, sub)

\* set(w for w in s.split() if len(w) > 3)
LongWords(s) ==
    LET starts == {i \in 1..Len(s) :
                      Ch(s, i) \notin Whitespace
                      /\ (i = 1 \/ Ch(s, i - 1) \in Whitespace)}
    IN  {w \in {Slice(s, i, RunEndNot(s, i, Whitespace) - 1) : i \in starts} :
            Len(w) > 3}

\* match_paper_to_digest(paper_name, digest_papers): the url of the first digest
\* entry whose title holds the name, is held by it, or shares enough long words.
match_paper_to_digest(paper_name, digest_papers) ==
    IF digest_papers = <<>> THEN None
    ELSE LET paper_lower == Strip(LowerStr(paper_name))
             paper_words == LongWords(paper_lower)
             Matches(k) ==
                LET title_lower == LowerStr(digest_papers[k][1])
                    title_words == LongWords(title_lower)
                IN  \/ Contains(title_lower, paper_lower)
                    \/ Contains(paper_lower, title_lower)
                    \/ /\ paper_words # {}
                       /\ title_words # {}
                       /\ Cardinality(paper_words \cap title_words)
                            >= Min({2, Cardinality(paper_words)})
             hits == {k \in 1..Len(digest_papers) : Matches(k)}
         IN  IF hits = {} THEN None ELSE digest_papers[Min(hits)][2]

\* index=None of format_paper.
NoIndex == -1

\* format_paper that gives the quick-hits timestamp to every quick-hit paper.
FormatPaperEveryQuickHit(name, index, is_quick_hit, is_first_quick_hit, deep_dive_ts_list, quick_hits_ts, digest_papers) ==
    LET ts == IF is_quick_hit /\ TruthyStr(quick_hits_ts) THEN quick_hits_ts
              ELSE IF ~is_quick_hit /\ index # NoIndex
                      /\ index < Len(deep_dive_ts_list)
                   THEN deep_dive_ts_list[index + 1]
                   ELSE None
        url == match_paper_to_digest(name, digest_papers)
        prefix == IF TruthyStr(ts) THEN "[" \o ts \o "] " ELSE ""
    IN  IF TruthyStr(url)
        THEN Bullet \o " " \o prefix \o name \o " " \o EmDash \o " " \o url
        ELSE Bullet \o " " \o prefix \o name

\* format_paper(name, index, is_quick_hit, is_first_quick_hit), with the three
\* values it takes from the enclosing call; index counts from 0.
format_paper(name, index, is_quick_hit, is_first_quick_hit, deep_dive_ts_list, quick_hits_ts, digest_papers) ==
    LET ts == IF is_first_quick_hit /\ TruthyStr(quick_hits_ts) THEN quick_hits_ts
              ELSE IF ~is_quick_hit /\ index # NoIndex
                      /\ index < Len(deep_dive_ts_list)
                   THEN deep_dive_ts_list[index + 1]
                   ELSE None
        url == match_paper_to_digest(name, digest_papers)
        prefix == IF TruthyStr(ts) THEN "[" \o ts \o "] " ELSE ""
    IN  IF TruthyStr(url)
        THEN Bullet \o " " \o prefix \o name \o " " \o EmDash \o " " \o url
        ELSE Bullet \o " " \o prefix \o name

\* sep.join(strs)
RECURSIVE JoinWith(_, _)
JoinWith(strs, sep) ==
    IF strs = <<>> THEN ""
    ELSE IF Len(strs) = 1 THEN strs[1]
    ELSE strs[1] \o sep \o JoinWith(Tail(strs), sep)

\* The summary paragraph of the description (lines 366-384).
EpisodeSummary(lead, deep_dives, quick_hits) ==
    LET total_papers == ToString(Len(deep_dives) + Len(quick_hits))
        other_topics == SubSeq(deep_dives, 2, Min({3, Len(deep_dives)}))
    IN  IF deep_dives = <<>>
        THEN "Alex and Maya break down the AI papers that actually matter "
             \o EmDash \o " one explains the science, one asks where the money is. No filler."
        ELSE IF TruthyStr(lead) /\ Len(deep_dives) > 1
        THEN "Today's episode dives deep into " \o lead
             \o (IF other_topics # <<>>
                 THEN ", along with " \o JoinWith(other_topics, ", ") ELSE "")
             \o (IF quick_hits # <<>>
                 THEN ". Plus " \o ToString(Len(quick_hits))
                      \o " quick hits covering the rest of what dropped on arXiv."
                 ELSE ".")
             \o " Alex breaks down the technical details while Maya asks the hard questions about what actually matters for building products and making money. "
             \o total_papers \o " papers, zero filler."
        ELSE IF TruthyStr(lead)
        THEN "Today we're breaking down " \o lead
             \o ". Alex explains the science, Maya asks where the money is. "
             \o total_papers \o " papers that could change how you build."
        ELSE "Alex and Maya break down " \o total_papers
             \o " papers from today's arXiv drop " \o EmDash
             \o " the ones that actually matter for building products, disrupting markets, or changing how AI works."

\* The text of the description (lines 361-403): the summary, an empty line and
\* the listing of the papers.
EpisodeText(lead, deep_dives, quick_hits, deep_dive_ts_list, quick_hits_ts, digest_papers) ==
    LET deep_lines == [i \in 1..Len(deep_dives) |->
                          format_paper(deep_dives[i], i - 1, FALSE, FALSE,
                                       deep_dive_ts_list, quick_hits_ts, digest_papers)]
        quick_lines == [i \in 1..Len(quick_hits) |->
                           format_paper(quick_hits[i], NoIndex, TRUE, i = 1,
                                        deep_dive_ts_list, quick_hits_ts, digest_papers)]
    IN  JoinWith(<<EpisodeSummary(lead, deep_dives, quick_hits), "">>
                 \o (IF deep_dives = <<>> THEN <<>>
                     ELSE IF quick_hits # <<>>
                     THEN <<"Deep Dives:">> \o deep_lines
                          \o <<"", "Quick Hits:">> \o quick_lines
                     ELSE <<"Papers discussed:">> \o deep_lines),
                 "\n")

\* The description for the papers of the script, or of the digest when the
\* script gives no deep dive (lines 361-363), and for what the call of
\* get_paper_timestamps gave: {} when it raised (lines 337-345).
EpisodeDescription(extracted, dig, loaded) ==
    EpisodeText(
        IF extracted.deep_dives = <<>> THEN dig.lead ELSE extracted.lead,
        IF extracted.deep_dives = <<>> THEN dig.deep_dives ELSE extracted.deep_dives,
        IF extracted.deep_dives = <<>> THEN dig.quick_hits ELSE extracted.quick_hits,
        IF loaded.exc = None /\ DEEP \in DOMAIN loaded.value
        THEN loaded.value[DEEP] ELSE <<>>,
        IF loaded.exc = None /\ QUICK \in DOMAIN loaded.value
        THEN loaded.value[QUICK] ELSE None,
        dig.papers)

\* build_episode_description(script_path, date_str, mp3_path): script is what
\* extract_papers_from_script returns for the script, dig what the digest of the
\* date holds; secs, duration and file are what get_paper_timestamps reads.
build_episode_description(script_path, mp3_path, script, dig, secs, duration, date, file) ==
    EpisodeDescription(
        IF script_path # None THEN script ELSE NoPapers,
        dig,
        IF script_path # None /\ mp3_path # None
        THEN get_paper_timestamps(secs, duration, date, file)
        ELSE [exc |-> None, value |-> <<>>])

\* build_episode_title(script_path, date_formatted, date_str): the lead paper,
\* cut to 80 characters, or the fixed title.
build_episode_title(script_path, script, dig, date) ==
    LET extracted == IF script_path # None THEN script ELSE NoPapers
        lead == IF ~TruthyStr(extracted.lead) /\ TruthyStr(date)
                THEN dig.lead ELSE extracted.lead
        clean == RStripDots(Strip(lead))
    IN  IF TruthyStr(lead)
        THEN (IF Len(clean) > 80 THEN SubSeq(clean, 1, 77) \o "..." ELSE clean)
        ELSE "AI Research Briefing"

(***************************************************************************)
(* scripts/generate_rss.py: create_rss_feed.  The episodes directory is a  *)
(* function from the names of its files to their sizes in bytes; every     *)
(* script, digest and side file reads as the one of the state.             *)
(***************************************************************************)
REPO_URL == "https://github.com/antonber/paper-weights-podcast"

\* a < b for two strings (two paths of one directory): the first character that
\* differs decides, by code point.
StrLess(a, b) ==
    LET order == " -.0123456789ABCDEFGHIJKLMNOPQRSTUVWXYZ_abcdefghijklmnopqrstuvwxyz"
        Code(c) == CHOOSE k \in 1..Len(order) : Ch(order, k) = c
    IN  \E i \in 1..(Len(a) + 1) :
            /\ i <= Len(b)
            /\ SubSeq(a, 1, i - 1) = SubSeq(b, 1, i - 1)
            /\ i > Len(a) \/ Code(Ch(a, i)) < Code(Ch(b, i))

\* sorted(episodes_path.glob("*-podcast*.mp3"), reverse=True)
SortedPodcastMp3(names) ==
    LET found == {n \in names :
                    /\ AtLit(n, Len(n) - 3, ".mp3")
                    /\ \E i \in 1..(Len(n) - 11) : AtLit(n, i, "-podcast")}
    IN  [k \in 1..Cardinality(found) |->
            CHOOSE n \in found : Cardinality({o \in found : StrLess(n, o)}) = k - 1]

\* "-".join(mp3_file.stem.split("-")[:3])
DateOfFile(name) ==
    LET filename == SubSeq(name, 1, Len(name) - 4)
        dashes == SortedSeq({i \in 1..Len(filename) : Ch(filename, i) = "-"})
    IN  IF Len(dashes) < 3 THEN filename ELSE SubSeq(filename, 1, dashes[3] - 1)

\* The choice of the audio file that takes the first upload when it is there.
FindBestMp3PreferBase(names, date) ==
    IF date \o "-podcast.mp3" \in names THEN date \o "-podcast.mp3"
    ELSE IF date \o "-podcast-v2.mp3" \in names THEN date \o "-podcast-v2.mp3"
    ELSE None

\* find_best_mp3(episodes_path, date_str), as a file name or None.
find_best_mp3(names, date) ==
    IF date \o "-podcast-v2.mp3" \in names THEN date \o "-podcast-v2.mp3"
    ELSE IF date \o "-podcast.mp3" \in names THEN date \o "-podcast.mp3"
    ELSE None

\* find_best_script(episodes_path, date_str), as a file name or None.
find_best_script(names, date) ==
    IF date \o "-script-v2.md" \in names THEN date \o "-script-v2.md"
    ELSE IF date \o "-script.md" \in names THEN date \o "-script.md"
    ELSE None

\* int(s) for a string of digits.
RECURSIVE IntOfDigits(_)
IntOfDigits(s) ==
    IF s = "" THEN 0
    ELSE 10 * IntOfDigits(SubSeq(s, 1, Len(s) - 1))
         + (CHOOSE k \in 0..9 : ToString(k) = Ch(s, Len(s)))

IsLeap(year) == year % 4 = 0 /\ (year % 100 # 0 \/ year % 400 = 0)

DaysInMonth(year, month) ==
    IF month = 2 THEN (IF IsLeap(year) THEN 29 ELSE 28)
    ELSE IF month \in {4, 6, 9, 11} THEN 30 ELSE 31

\* datetime.strptime(date_str, "%Y-%m-%d"): %Y is \d\d\d\d, %m is
\* 1[0-2]|0[1-9]|[1-9], %d is 3[0-1]|[1-2]\d|0[1-9]|[1-9]| [1-9], the whole
\* string has to be taken and the three numbers have to be a date.
strptime(date) ==
    LET dashes == SortedSeq({i \in 1..Len(date) : Ch(date, i) = "-"})
        Y == Slice(date, 1, dashes[1] - 1)
        m == Slice(date, dashes[1] + 1, dashes[2] - 1)
        d == Slice(date, dashes[2] + 1, Len(date))
        AllDigits(s) == \A i \in 1..Len(s) : Ch(s, i) \in Digit
        year == IntOfDigits(Y)
        month == IntOfDigits(m)
        day == IntOfDigits(Strip(d))
        matched == /\ Len(dashes) = 2
                   /\ Len(Y) = 4 /\ AllDigits(Y)
                   /\ Len(m) \in {1, 2} /\ AllDigits(m) /\ month \in 1..12
                   /\ \/ Len(d) \in {1, 2} /\ AllDigits(d) /\ day \in 1..31
                      \/ Len(d) = 2 /\ Ch(d, 1) = " " /\ Ch(d, 2) \in Digit /\ day >= 1
    IN  IF ~matched THEN [exc |-> "ValueError"]
        ELSE IF year < 1 \/ day > DaysInMonth(year, month) THEN [exc |-> "ValueError"]
        ELSE [exc |-> None, year |-> year, month |-> month, day |-> day]

\* date.weekday(): the day number of the proleptic Gregorian calendar, plus 6,
\* modulo 7 (Monday is 0).
Weekday(year, month, day) ==
    LET y == year - 1
        before_month == <<0, 31, 59, 90, 120, 151, 181, 212, 243, 273, 304, 334>>
        ordinal == y * 365 + y \div 4 - y \div 100 + y \div 400
                   + before_month[month]
                   + (IF month > 2 /\ IsLeap(year) THEN 1 ELSE 0)
                   + day
    IN  (ordinal + 6) % 7

\* episode_date.strftime("%a, %d %b %Y 09:00:00 -0600"); %Y is the year without padding.
PubDate(t) ==
    <<"Mon", "Tue", "Wed", "Thu", "Fri", "Sat", "Sun">>[Weekday(t.year, t.month, t.day) + 1]
    \o ", " \o Pad2(t.day) \o " "
    \o <<"Jan", "Feb", "Mar", "Apr", "May", "Jun", "Jul", "Aug", "Sep", "Oct",
         "Nov", "Dec">>[t.month]
    \o " " \o ToString(t.year) \o " 09:00:00 -0600"

\* get_audio_duration(mp3_path) for an audio file ffprobe reads: HH:MM:SS of
\* the whole seconds of its duration.
get_audio_duration(duration) ==
    LET duration_seconds == duration \div 1000
    IN  Pad2(duration_seconds \div 3600) \o ":"
        \o Pad2((duration_seconds % 3600) \div 60) \o ":"
        \o Pad2(duration_seconds % 60)

\* The item of one episode (lines 476-505).
EpisodeItem(date, best_mp3, episode_date) ==
    LET script_file == find_best_script(DOMAIN episodes, date)
        episode_url == REPO_URL \o "/releases/download/" \o date \o "/" \o best_mp3
    IN  [title |-> build_episode_title(script_file, script_papers, digest, date),
         description |-> build_episode_description(script_file, best_mp3,
                             script_papers, digest, sections, total_duration_ms,
                             date, side_file),
         link |-> episode_url,
         guid |-> episode_url,
         pubDate |-> PubDate(episode_date),
         enclosure |-> [url |-> episode_url, length |-> ToString(episodes[best_mp3]),
                        type |-> "audio/mpeg"],
         duration |-> get_audio_duration(total_duration_ms)]

\* The loop over the audio files that ends at the first date it cannot parse.
RECURSIVE FeedWalkStopAtBadDate(_, _, _, _, _)
FeedWalkStopAtBadDate(mp3_files, i, seen_dates, items, warnings) ==
    IF i > Len(mp3_files) THEN [items |-> items, warnings |-> warnings]
    ELSE LET date == DateOfFile(mp3_files[i])
             best_mp3 == find_best_mp3(DOMAIN episodes, date)
             episode_date == strptime(date)
         IN  IF date \in seen_dates \/ best_mp3 = None
             THEN FeedWalkStopAtBadDate(mp3_files, i + 1, seen_dates, items, warnings)
             ELSE IF episode_date.exc # None
             THEN [items |-> items, warnings |-> Append(warnings, mp3_files[i])]
             ELSE FeedWalkStopAtBadDate(mp3_files, i + 1, seen_dates \cup {date},
                      Append(items, EpisodeItem(date, best_mp3, episode_date)),
                      warnings)

\* The loop over the audio files from the i-th on (lines 457-506): the items of
\* the channel and the files warned about.
RECURSIVE FeedWalk(_, _, _, _, _)
FeedWalk(mp3_files, i, seen_dates, items, warnings) ==
    IF i > Len(mp3_files) THEN [items |-> items, warnings |-> warnings]
    ELSE LET date == DateOfFile(mp3_files[i])
             best_mp3 == find_best_mp3(DOMAIN episodes, date)
             episode_date == strptime(date)
         IN  IF date \in seen_dates \/ best_mp3 = None
             THEN FeedWalk(mp3_files, i + 1, seen_dates, items, warnings)
             ELSE IF episode_date.exc # None
             THEN FeedWalk(mp3_files, i + 1, seen_dates \cup {date}, items,
                           Append(warnings, mp3_files[i]))
             ELSE FeedWalk(mp3_files, i + 1, seen_dates \cup {date},
                      Append(items, EpisodeItem(date, best_mp3, episode_date)),
                      warnings)

\* create_rss_feed(episodes_dir, output_file): the items written to the feed, in
\* order, and the files warned about.
create_rss_feed ==
    LET w == FeedWalk(SortedPodcastMp3(DOMAIN episodes), 1, {}, <<>>, <<>>)
    IN  [exc |-> None, value |-> w.items, warnings |-> w.warnings,
         episode_count |-> Len(w.items)]

(***************************************************************************)
(* scripts/parse_and_tts.py: validate_segment, generate_segment and main.  *)
(* A text is the sequence of the lengths of its sentences, which single    *)
(* blanks separate.  An audio file is its size in bytes and the duration   *)
(* get_audio_duration reports for it (0 when ffprobe fails), counted in    *)
(* quarters of a second: a float holds such a duration exactly, and the    *)
(* quotients and comparisons of validate_segment on it come out as in      *)
(* exact arithmetic.  The temporary directory is a function from file      *)
(* names to audio files.                                                   *)
(***************************************************************************)
\* len(text)
RECURSIVE TextLen(_)
TextLen(sentences) ==
    IF sentences = <<>> THEN 0
    ELSE IF Len(sentences) = 1 THEN sentences[1]
    ELSE sentences[1] + 1 + TextLen(Tail(sentences))

\* The verdict of validate_segment: (is_valid, reason), the reason without the
\* numbers it quotes.
Verdict(is_valid, reason) == [is_valid |-> is_valid, reason |-> reason]

\* validate_segment(outfile, text_len) on the files of a directory.
validate_segment(dir, path, text_len) ==
    IF path \notin DOMAIN dir THEN Verdict(FALSE, "file missing")
    ELSE LET file_size == dir[path].file_size
             duration == dir[path].duration
         IN  IF file_size < 1000 THEN Verdict(FALSE, "file too small")
             ELSE IF duration < 2 THEN Verdict(FALSE, "duration too short")
             ELSE IF duration > 0 /\ 4 * file_size < 2000 * duration
             THEN Verdict(FALSE, "abnormal bitrate")
             ELSE IF duration > 0 /\ 4 * file_size > 100000 * duration
             THEN Verdict(FALSE, "abnormal bitrate")
             ELSE IF 5 * duration > 4 * text_len /\ duration > 4 * 30
             THEN Verdict(FALSE, "duration too long")
             ELSE Verdict(TRUE, "ok")

\* f"seg_{index:04d}.mp3"
SegmentFile(i) ==
    "seg_" \o (IF i < 10 THEN "000" ELSE IF i < 100 THEN "00"
               ELSE IF i < 1000 THEN "0" ELSE "") \o ToString(i) \o ".mp3"

\* The number of sentences the chunk of generate_segment takes from the i-th on,
\* the chunk being chunk_len characters long (lines 95-100).
RECURSIVE ChunkWalk(_, _, _)
ChunkWalk(sentences, i, chunk_len) ==
    IF i > Len(sentences) THEN i - 1
    ELSE IF chunk_len + sentences[i] < 2400
    THEN ChunkWalk(sentences, i + 1, chunk_len + sentences[i] + 1)
    ELSE i - 1

\* The text generate_segment sends to the synthesizer (lines 91-101): a text of
\* more than 2500 characters is cut to its leading sentences, or to its first
\* 2500 characters when the first sentence alone is too long.
Truncated(sentences) ==
    IF TextLen(sentences) > 2500
    THEN LET taken == ChunkWalk(sentences, 1, 0)
         IN  IF taken > 0 THEN SubSeq(sentences, 1, taken) ELSE <<2500>>
    ELSE sentences

\* Default of the parameter max_retries of generate_segment.
DefaultMaxRetries == 2

\* The directory without the file of that name (os.remove, OSError ignored).
Removed(dir, path) == [n \in DOMAIN dir \ {path} |-> dir[n]]

\* What an attempt came to: the synthesizer raised or completed, and the verdict
\* of validate_segment when it completed.
Raised == [raised |-> TRUE, is_valid |-> FALSE, reason |-> "exception"]

Completed(verdict) == [raised |-> FALSE] @@ verdict

\* The loop of generate_segment that returns the file path after the last
\* attempt whatever the verdict.
GenerateSegmentKeepLast(dir, path, raised) ==
    LET verdict == validate_segment(dir, path, TextLen(seg_text))
        last == attempt >= max_retries
    IN  /\ attempts' = Append(attempts, IF raised THEN Raised ELSE Completed(verdict))
        /\ IF raised
           THEN /\ tmpdir' = dir
                /\ outfile' = IF last THEN path ELSE outfile
                /\ pc' = IF last THEN "returned" ELSE pc
                /\ attempt' = IF last THEN attempt ELSE attempt + 1
           ELSE IF verdict.is_valid
           THEN tmpdir' = dir /\ outfile' = path /\ pc' = "returned" /\ attempt' = attempt
           ELSE IF ~last
           THEN /\ tmpdir' = Removed(dir, path)
                /\ attempt' = attempt + 1
                /\ UNCHANGED <<outfile, pc>>
           ELSE tmpdir' = dir /\ outfile' = path /\ pc' = "returned" /\ attempt' = attempt

\* One pass of the loop of generate_segment (lines 103-131), the synthesizer
\* having left the directory dir and raised or completed: the attempt is noted;
\* an exception or a rejected file leads to the next attempt, the rejected file
\* removed, or to None after the last attempt; a file that passes is returned.
generate_segment(dir, path, raised) ==
    LET verdict == validate_segment(dir, path, TextLen(seg_text))
        last == attempt >= max_retries
    IN  /\ attempts' = Append(attempts, IF raised THEN Raised ELSE Completed(verdict))
        /\ IF raised
           THEN /\ tmpdir' = dir
                /\ outfile' = IF last THEN None ELSE outfile
                /\ pc' = IF last THEN "returned" ELSE pc
                /\ attempt' = IF last THEN attempt ELSE attempt + 1
           ELSE IF verdict.is_valid
           THEN tmpdir' = dir /\ outfile' = path /\ pc' = "returned" /\ attempt' = attempt
           ELSE IF ~last
           THEN /\ tmpdir' = Removed(dir, path)
                /\ attempt' = attempt + 1
                /\ UNCHANGED <<outfile, pc>>
           ELSE tmpdir' = dir /\ outfile' = None /\ pc' = "returned" /\ attempt' = attempt

\* The lines main writes to the concatenation file for the segments from the
\* i-th on with a silence after every one.
RECURSIVE ConcatSilenceAfterEach(_, _)
ConcatSilenceAfterEach(segs, i) ==
    IF i > Len(segs) THEN <<>>
    ELSE <<segs[i], "silence.mp3">> \o ConcatSilenceAfterEach(segs, i + 1)

\* The lines main writes to the concatenation file for the segments from the
\* i-th on (lines 166-171): each segment, and a silence after it unless it is
\* the last.
RECURSIVE ConcatLines(_, _)
ConcatLines(segs, i) ==
    IF i > Len(segs) THEN <<>>
    ELSE <<segs[i]>> \o (IF i < Len(segs) THEN <<"silence.mp3">> ELSE <<>>)
                     \o ConcatLines(segs, i + 1)

(***************************************************************************)
(* The timing specification: a parsed script (its sections) and a probed   *)
(* duration, then one call of an estimator.                                *)
(***************************************************************************)
\* Sequences over S of length at most n.
SeqsUpTo(S, n) == UNION {[1..k -> S] : k \in 0..n}

\* The sections of a script whose i-th section is titled "Section i" and holds
\* counts[i] dialogue segments.
TimingSections(counts) ==
    [i \in 1..Len(counts) |->
        [title |-> "Section " \o ToString(i), segment_count |-> counts[i],
         paper_name |-> None, is_quick_hits |-> FALSE]]

InitTiming ==
    /\ NoSynthesis
    /\ NoTagging
    /\ script_papers = NoPapers
    /\ digest = NoDigest
    /\ episodes = <<>>
    /\ content = ""
    /\ \E counts \in SeqsUpTo(0..MaxSegments, MaxSections) :
            sections = TimingSections(counts)
    /\ total_duration_ms \in Durations
    /\ date_str = None
    /\ side_file = [state |-> "absent", items |-> <<>>]
    /\ pc = "idle"
    /\ result = None

CalculateChapterTimes ==
    /\ pc = "idle"
    /\ pc' = "done"
    /\ result' = calculate_chapter_times(sections, total_duration_ms)
    /\ UNCHANGED inputs

CalculateProportionalTimestamps ==
    /\ pc = "idle"
    /\ pc' = "done"
    /\ result' = [op |-> "calculate_proportional_timestamps", exc |-> None,
                  value |-> calculate_proportional_timestamps(sections, total_duration_ms),
                  calls |-> <<>>]
    /\ UNCHANGED inputs

NextTiming == CalculateChapterTimes \/ CalculateProportionalTimestamps

SpecTiming == InitTiming /\ [][NextTiming]_vars

(***************************************************************************)
(* The resolution specification: a script, a probed duration, an optional  *)
(* date and the side file of that date, then one call of the loader, of a  *)
(* resolver or of the timestamp estimator.                                 *)
(***************************************************************************)
\* Sections of a parsed script: an introduction, a deep dive with its paper name, a
\* quick-hits round and a header without dialogue.
ScriptSections ==
    { [title |-> "Cold Open", segment_count |-> 1, paper_name |-> None,
       is_quick_hits |-> FALSE],
      [title |-> "Deep Dive 1: Paper A", segment_count |-> 2, paper_name |-> "Paper A",
       is_quick_hits |-> FALSE],
      [title |-> "Quick Hits", segment_count |-> 1, paper_name |-> None,
       is_quick_hits |-> TRUE],
      [title |-> "Notes", segment_count |-> 0, paper_name |-> None,
       is_quick_hits |-> FALSE] }

\* Objects of a side file.  Their timestamps lie past every duration of
\* ResolveDurations, so that a timestamp string tells where it comes from.
SideFileItems ==
    { [k \in {"title", "timestamp_ms"} |->
          IF k = "title" THEN JStr("Intro") ELSE JInt(60000)],
      [k \in {"title", "timestamp_ms", "paper_name"} |->
          IF k = "timestamp_ms" THEN JInt(90000) ELSE JStr("Paper A")],
      [k \in {"title", "timestamp_ms", "is_quick_hits"} |->
          IF k = "title" THEN JStr("Quick Hits")
          ELSE IF k = "timestamp_ms" THEN JInt(125500) ELSE JBool(TRUE)],
      [k \in {"title", "paper_name"} |-> JStr("Paper B")],
      [k \in {"title", "timestamp_ms"} |->
          IF k = "title" THEN JStr("Paper C") ELSE JStr("1:30")] }

\* Largest number of sections of a script (resolution specification).
MaxScriptSections == 2

\* Largest number of objects in a side file.
MaxItems == 2

ResolveDurations == {0, 8000}

SideFiles ==
    {[state |-> st, items |-> <<>>] : st \in {"absent", "unreadable", "malformed"}}
    \cup {[state |-> "array", items |-> items] :
            items \in SeqsUpTo(SideFileItems, MaxItems)}

InitResolve ==
    /\ NoSynthesis
    /\ NoTagging
    /\ script_papers = NoPapers
    /\ digest = NoDigest
    /\ episodes = <<>>
    /\ content = ""
    /\ sections \in SeqsUpTo(ScriptSections, MaxScriptSections)
    /\ total_duration_ms \in ResolveDurations
    /\ date_str \in {None, "", "2026-02-09"}
    /\ side_file \in SideFiles
    /\ pc = "idle"
    /\ result = None

LoadPreciseTimestamps ==
    /\ pc = "idle"
    /\ pc' = "done"
    /\ result' = [op |-> "load_precise_timestamps", exc |-> None,
                  value |-> load_precise_timestamps(date_str, side_file),
                  calls |-> <<>>]
    /\ UNCHANGED inputs

GetPaperTimestamps ==
    /\ pc = "idle"
    /\ pc' = "done"
    /\ result' = [op |-> "get_paper_timestamps"]
                 @@ get_paper_timestamps(sections, total_duration_ms, date_str, side_file)
    /\ UNCHANGED inputs

ExtractTimestamps ==
    /\ pc = "idle"
    /\ pc' = "done"
    /\ result' = [op |-> "extract_timestamps"]
                 @@ extract_timestamps(sections, total_duration_ms, date_str, side_file)
    /\ UNCHANGED inputs

NextResolve ==
    \/ LoadPreciseTimestamps
    \/ GetPaperTimestamps
    \/ ExtractTimestamps
    \/ CalculateProportionalTimestamps

SpecResolve == InitResolve /\ [][NextResolve]_vars

(***************************************************************************)
(* The loader specification: a date and the side file of that date, then   *)
(* one call of load_precise_timestamps.                                    *)
(***************************************************************************)
\* Objects of a side file: those of SideFileItems and one without a title.
LoaderItems ==
    SideFileItems \cup {[k \in {"timestamp_ms"} |-> JInt(70000)]}

\* Largest number of objects in a side file (loader specification).
MaxLoaderItems == 3

\* Largest number of whole minutes of a timestamp_ms (loader specification).
MaxMinutes == 120

\* Millisecond positions around the second, ten-second, minute, ten-minute and
\* hundred-minute boundaries, up to MaxMinutes minutes.
MsValues ==
    {m * 60000 + s * 1000 + r :
        m \in {0, 1, 9, 10, 59, 60, 99, 100, MaxMinutes},
        s \in {0, 1, 9, 10, 59},
        r \in {0, 1, 999}}

\* Side files of the loader specification: the arrays of at most MaxLoaderItems
\* objects of LoaderItems, and the arrays of one object {title, timestamp_ms}
\* for the positions of MsValues.
LoaderFiles ==
    {[state |-> "array", items |-> items] :
        items \in SeqsUpTo(LoaderItems, MaxLoaderItems)}
    \cup {[state |-> "array",
           items |-> <<[k \in {"title", "timestamp_ms"} |->
                          IF k = "title" THEN JStr("Chapter") ELSE JInt(ms)]>>] :
            ms \in MsValues}

InitLoader ==
    /\ NoSynthesis
    /\ NoTagging
    /\ script_papers = NoPapers
    /\ digest = NoDigest
    /\ episodes = <<>>
    /\ content = ""
    /\ sections = <<>>
    /\ total_duration_ms = 0
    /\ date_str \in {None, "2026-02-09"}
    /\ side_file \in LoaderFiles
    /\ pc = "idle"
    /\ result = None

NextLoader == LoadPreciseTimestamps

SpecLoader == InitLoader /\ [][NextLoader]_vars

(***************************************************************************)
(* The paper specification: a parsed script and a probed duration, then    *)
(* one call of get_paper_timestamps without a side file (estimation path). *)
(***************************************************************************)
\* Largest number of dialogue segments of one section (paper specification).
MaxPaperSegments == 2

\* Largest number of sections of a script (paper specification).
MaxPaperSections == 2

\* Titles of parsed sections with the paper name and the quick-hits flag the
\* standard parser gives them: the five structural labels, an introduction in
\* another case, a plain section, a quick-hits round, a deep dive and a paper
\* whose name holds "quick hit".
PaperTitles ==
    {[title |-> t, paper_name |-> None, is_quick_hits |-> FALSE] :
        t \in StructuralTitles \cup {"Intro", "Main Story"}}
    \cup {[title |-> "Quick Hits", paper_name |-> None, is_quick_hits |-> TRUE],
          [title |-> "Deep Dive 1: Paper A", paper_name |-> "Paper A",
           is_quick_hits |-> FALSE],
          [title |-> "Paper 2: Quick Hits Explained",
           paper_name |-> "Quick Hits Explained", is_quick_hits |-> TRUE]}

PaperSections ==
    {[segment_count |-> n] @@ t : t \in PaperTitles, n \in 0..MaxPaperSegments}

InitPapers ==
    /\ NoSynthesis
    /\ NoTagging
    /\ script_papers = NoPapers
    /\ digest = NoDigest
    /\ episodes = <<>>
    /\ content = ""
    /\ sections \in SeqsUpTo(PaperSections, MaxPaperSections)
    /\ total_duration_ms \in {100, 8000}
    /\ date_str = None
    /\ side_file = [state |-> "absent", items |-> <<>>]
    /\ pc = "idle"
    /\ result = None

NextPapers == GetPaperTimestamps

SpecPapers == InitPapers /\ [][NextPapers]_vars

(***************************************************************************)
(* The parser specification: the text of a script, then one call of        *)
(* parse_script_sections.                                                  *)
(***************************************************************************)
\* Lines of a script: top-level headers (a deep dive with a duration annotation
\* before the colon, the "Deep Dives" header, a header that only starts with
\* these words, names the quick-hits round and ends with a duration annotation),
\* a segment header with a duration annotation at its end, a divider, a dialogue line, a dialogue line naming its paper, a
\* line without a speaker tag and a line with two speaker tags inside.
ScriptLines ==
    { "## Deep Dive 2 (3 min): Scaling Laws for Retrieval",
      "## Deep Dives",
      "## Deep Dives and Quick Hits (2 min)",
      "### SEGMENT: PAPER 1 - Attention (5 min)",
      "---",
      "**Alex**: hi",
      "**Maya**: It's called Scaling Laws for Retrieval.",
      "plain text",
      "Then **Alex**: said **Maya**: no" }

\* Largest number of lines of a script.
MaxLines == 3

\* The text of the lines, each ended by a line break.
RECURSIVE JoinLines(_)
JoinLines(lines) ==
    IF lines = <<>> THEN "" ELSE lines[1] \o "\n" \o JoinLines(Tail(lines))

InitParser ==
    /\ NoSynthesis
    /\ NoTagging
    /\ script_papers = NoPapers
    /\ digest = NoDigest
    /\ episodes = <<>>
    /\ content \in {JoinLines(lines) : lines \in SeqsUpTo(ScriptLines, MaxLines)}
    /\ sections = <<>>
    /\ total_duration_ms = 0
    /\ date_str = None
    /\ side_file = [state |-> "absent", items |-> <<>>]
    /\ pc = "idle"
    /\ result = None

ParseScriptSections ==
    /\ pc = "idle"
    /\ pc' = "done"
    /\ result' = [op |-> "parse_script_sections"] @@ parse_script_sections(content)
    /\ UNCHANGED inputs

\* The chapter builder reads the same script with its own parser.
AddChaptersParseScriptSections ==
    /\ pc = "idle"
    /\ pc' = "done"
    /\ result' = [op |-> "add_chapters.parse_script_sections", exc |-> None,
                  value |-> add_chapters_parse_script_sections(content),
                  calls |-> <<>>]
    /\ UNCHANGED inputs

NextParser == ParseScriptSections \/ AddChaptersParseScriptSections

SpecParser == InitParser /\ [][NextParser]_vars

(***************************************************************************)
(* The block specification: a script of the block-with-dividers dialect,   *)
(* that is the "## Deep Dives" header and the lines under it, then one     *)
(* call of parse_script_sections.                                          *)
(***************************************************************************)
\* Lines under the "## Deep Dives" header: a divider, a dialogue line, a dialogue
\* line naming its paper, a dialogue line quoting a phrase of periods only, a
\* line without a speaker tag and the header of the next top-level section.
BlockLines ==
    { "---",
      "**Alex**: hi",
      "**Maya**: It's called Scaling Laws for Retrieval.",
      "**Alex**: the study \"...........\" ok",
      "plain text",
      "## Deep Dives and Quick Hits (2 min)" }

\* Largest number of lines under the "## Deep Dives" header.
MaxBlockLines == 4

InitBlocks ==
    /\ NoSynthesis
    /\ NoTagging
    /\ script_papers = NoPapers
    /\ digest = NoDigest
    /\ episodes = <<>>
    /\ content \in {JoinLines(<<"## Deep Dives">> \o lines) :
                        lines \in SeqsUpTo(BlockLines, MaxBlockLines)}
    /\ sections = <<>>
    /\ total_duration_ms = 0
    /\ date_str = None
    /\ side_file = [state |-> "absent", items |-> <<>>]
    /\ pc = "idle"
    /\ result = None

SpecBlocks == InitBlocks /\ [][NextParser]_vars

(***************************************************************************)
(* The show-notes specification: the papers extracted from a script, the   *)
(* digest of the date, the sections, duration and side file the timestamps *)
(* come from, then one call of build_episode_description.                  *)
(***************************************************************************)
\* Paper names an extractor finds under deep-dive headers.
DeepDiveNames == {"Scaling Laws for Retrieval", "Attention Is All You Need"}

\* Paper names an extractor finds in the quick-hits round.
QuickHitNames == {"Sparse Mixtures of Experts", "Tiny Models for Edge Devices"}

\* Largest number of deep-dive papers and of quick-hit papers of a script.
MaxDeepDives == 2

MaxQuickHits == 2

\* Largest number of sections of a script (show-notes specification).
MaxNotesSections == 2

\* What extract_papers_from_script can return: the quick-hit names are distinct
\* (`q not in quick_hits`), the deep-dive names need not be.
ScriptPapers ==
    {Papers(deep, quick) :
        deep \in SeqsUpTo(DeepDiveNames, MaxDeepDives),
        quick \in {q \in SeqsUpTo(QuickHitNames, MaxQuickHits) :
                      \A i, j \in 1..Len(q) : q[i] = q[j] => i = j}}

\* A digest with the links of two papers, one of them of a later rank.
SomeDigest ==
    [papers |-> << <<"Scaling Laws for Neural Retrieval",
                     "https://arxiv.org/abs/2602.00001">>,
                   <<"Sparse Mixtures of Experts",
                     "https://arxiv.org/abs/2602.00002">> >>]
    @@ Papers(<<"Scaling Laws for Neural Retrieval">>, <<"Sparse Mixtures of Experts">>)

\* The sections the timestamps are estimated from: a paper and the quick hits.
NotesSections ==
    {s \in ScriptSections : s.title \in {"Deep Dive 1: Paper A", "Quick Hits"}}

\* No side file, or one that times a paper and the quick hits.
NotesSideFiles ==
    {[state |-> "absent", items |-> <<>>],
     [state |-> "array",
      items |-> <<CHOOSE it \in SideFileItems :
                    {"paper_name", "timestamp_ms"} \subseteq DOMAIN it,
                  CHOOSE it \in SideFileItems :
                    {"is_quick_hits", "timestamp_ms"} \subseteq DOMAIN it>>]}

InitNotes ==
    /\ NoSynthesis
    /\ NoTagging
    /\ content = ""
    /\ sections \in SeqsUpTo(NotesSections, MaxNotesSections)
    /\ total_duration_ms = 8000
    /\ date_str = "2026-02-09"
    /\ side_file \in NotesSideFiles
    /\ script_papers \in ScriptPapers
    /\ digest \in {NoDigest, SomeDigest}
    /\ episodes = <<>>
    /\ pc = "idle"
    /\ result = None

BuildEpisodeDescription ==
    /\ pc = "idle"
    /\ pc' = "done"
    /\ \E script_path \in {None, "2026-02-09-script.md"},
          mp3_path \in {None, "2026-02-09-podcast.mp3"} :
        result' = [op |-> "build_episode_description", exc |-> None,
                   script_path |-> script_path, mp3_path |-> mp3_path,
                   value |-> build_episode_description(script_path, mp3_path,
                                 script_papers, digest, sections,
                                 total_duration_ms, date_str, side_file)]
    /\ UNCHANGED inputs

NextNotes == BuildEpisodeDescription

SpecNotes == InitNotes /\ [][NextNotes]_vars

(***************************************************************************)
(* The feed specification: an episodes directory, then one call of         *)
(* create_rss_feed.                                                        *)
(***************************************************************************)
\* Files of the episodes directory: the two audio files of one date, the audio
\* file of a second date, audio files of three dates no calendar holds (one
\* sorts before, one between and one after the others), an audio file without a
\* date, and a script.
EpisodeFiles ==
    { "2026-02-09-podcast.mp3",
      "2026-02-09-podcast-v2.mp3",
      "2026-02-10-podcast.mp3",
      "2026-02-30-podcast.mp3",
      "2026-13-01-podcast-v2.mp3",
      "2025-02-29-podcast.mp3",
      "notes-podcast.mp3",
      "2026-02-09-script.md" }

\* Sizes of the files in bytes.
FileSizes == {52000}

InitFeed ==
    /\ NoSynthesis
    /\ NoTagging
    /\ content = ""
    /\ sections \in {s \in [1..2 -> NotesSections] :
                        ~s[1].is_quick_hits /\ s[2].is_quick_hits}
    /\ total_duration_ms = 8000
    /\ date_str = None
    /\ side_file = [state |-> "absent", items |-> <<>>]
    /\ script_papers = Papers(<<"Scaling Laws for Retrieval">>,
                              <<"Sparse Mixtures of Experts">>)
    /\ digest = SomeDigest
    /\ episodes \in UNION {[names -> FileSizes] : names \in SUBSET EpisodeFiles}
    /\ pc = "idle"
    /\ result = None

CreateRssFeed ==
    /\ pc = "idle"
    /\ pc' = "done"
    /\ result' = [op |-> "create_rss_feed"] @@ create_rss_feed
    /\ UNCHANGED inputs

NextFeed == CreateRssFeed

SpecFeed == InitFeed /\ [][NextFeed]_vars

(***************************************************************************)
(* The tagging specification: an audio file with or without tags, chapter  *)
(* frames of an earlier run among them, a chapter list, then calls of      *)
(* add_chapters_to_mp3 on the same file and chapters.                      *)
(***************************************************************************)
\* Largest number of chapters.
MaxChapters == 2

\* Largest number of frames of the audio file before the first call.
MaxFrames == 3

\* Largest number of calls on the same audio file.
MaxTagCalls == 2

\* Frames of the audio file before the first call: a title, an album, chapter 0
\* and a table of contents of an earlier run, and a chapter under another id.
OldFrames ==
    { [key |-> "TIT2", text |-> "Episode"],
      [key |-> "TALB", text |-> "Paper Weights"],
      CHAP("chp0", [title |-> "Old", start_ms |-> 0, end_ms |-> 500]),
      CHAP("intro", [title |-> "Intro", start_ms |-> 0, end_ms |-> 90]),
      CTOC(<<"chp0", "intro">>) }

\* The chapters of a script of n sections.
ChaptersOf(n) ==
    [i \in 1..n |-> [title |-> "Section " \o ToString(i),
                     start_ms |-> (i - 1) * 1000, end_ms |-> i * 1000]]

InitTags ==
    /\ content = ""
    /\ sections = <<>>
    /\ total_duration_ms = 0
    /\ date_str = None
    /\ side_file = [state |-> "absent", items |-> <<>>]
    /\ script_papers = [lead |-> None, deep_dives |-> <<>>, quick_hits |-> <<>>]
    /\ digest = [papers |-> <<>>, lead |-> None, deep_dives |-> <<>>,
                 quick_hits |-> <<>>]
    /\ episodes = <<>>
    /\ NoSynthesis
    /\ mp3_chapters \in {ChaptersOf(n) : n \in 0..MaxChapters}
    /\ tags \in {NoTags} \cup
                {Tags(frames) : frames \in
                    {f \in SeqsUpTo(OldFrames, MaxFrames) :
                        \A i, j \in 1..Len(f) : i # j => f[i].key # f[j].key}}
    /\ pc = "idle"
    /\ result = None

AddChaptersToMp3 ==
    /\ pc = "idle" \/ (pc = "done" /\ Len(result.calls) < MaxTagCalls)
    /\ pc' = "done"
    /\ tags' = add_chapters_to_mp3(tags, mp3_chapters)
    /\ result' = [op |-> "add_chapters_to_mp3", exc |-> None,
                  value |-> Len(mp3_chapters),
                  calls |-> (IF pc = "idle" THEN <<>> ELSE result.calls)
                            \o <<"save">>]
    /\ UNCHANGED <<estimation, synthesis, mp3_chapters>>

NextTags == AddChaptersToMp3

SpecTags == InitTags /\ [][NextTags]_vars

(***************************************************************************)
(* The validation specification: a temporary directory with or without the *)
(* file of segment 0, a text length, then one call of validate_segment.    *)
(***************************************************************************)
\* The inference engine is not in use.
NoEstimation ==
    /\ content = ""
    /\ sections = <<>>
    /\ total_duration_ms = 0
    /\ date_str = None
    /\ side_file = [state |-> "absent", items |-> <<>>]
    /\ script_papers = NoPapers
    /\ digest = NoDigest
    /\ episodes = <<>>

\* File sizes in bytes: below and at the smallest size taken, a small file, a
\* file of 16 KB and one of 500 KB.
SegmentSizes == {999, 1000, 2000, 16000, 500000}

\* Durations in quarters of a second: 0 s (also the failed probe), 0.25 s,
\* 0.5 s, 1 s, 4 s, 30 s, 31 s and 100 s.
SegmentDurations == {0, 1, 2, 4, 16, 120, 124, 400}

\* Text lengths in characters.
TextLens == {1, 100, 160, 600, 2500}

InitValidate ==
    /\ NoEstimation
    /\ NoTagging
    /\ dialogue = <<>>
    /\ seg_index = 0
    /\ seg_text \in {<<n>> : n \in TextLens}
    /\ max_retries = DefaultMaxRetries
    /\ attempt = 0
    /\ attempts = <<>>
    /\ tmpdir \in {<<>>} \cup
                  {SegmentFile(0) :> [file_size |-> s, duration |-> d] :
                      s \in SegmentSizes, d \in SegmentDurations}
    /\ outfile = None
    /\ segments = <<>>
    /\ skipped = <<>>
    /\ concat = <<>>
    /\ pc = "idle"
    /\ result = None

ValidateSegment ==
    /\ pc = "idle"
    /\ pc' = "done"
    /\ result' = [op |-> "validate_segment", exc |-> None,
                  value |-> validate_segment(tmpdir, SegmentFile(seg_index),
                                             TextLen(seg_text)),
                  calls |-> <<>>]
    /\ UNCHANGED inputs

NextValidate == ValidateSegment

SpecValidate == InitValidate /\ [][NextValidate]_vars

(***************************************************************************)
(* The segment specification: one call of generate_segment, its text, its  *)
(* index and its retry limit drawn; the synthesizer raises or completes at *)
(* every attempt and leaves a file or none.                                *)
(***************************************************************************)
\* Largest retry limit of a call.
MaxRetries == 2

\* Texts: a short one, one of three sentences that is cut to its first, and one
\* whose only sentence is longer than what is sent.
Texts == {<<20>>, <<1200, 1300, 20>>, <<2600>>}

\* Files the synthesizer leaves: a sound one of 1 s, an empty one and one ffprobe
\* cannot read.
SynthFiles ==
    { [file_size |-> 16000, duration |-> 4],
      [file_size |-> 0, duration |-> 0],
      [file_size |-> 16000, duration |-> 0] }

InitSegment ==
    /\ NoEstimation
    /\ NoTagging
    /\ dialogue = <<>>
    /\ seg_index \in {0, 12}
    /\ seg_text \in Texts
    /\ max_retries \in 0..MaxRetries
    /\ attempt = 0
    /\ attempts = <<>>
    /\ tmpdir = <<>>
    /\ outfile = None
    /\ segments = <<>>
    /\ skipped = <<>>
    /\ concat = <<>>
    /\ pc = "call"
    /\ result = None

\* generate_segment is entered (lines 89-101): the text is cut when too long and
\* the loop starts at attempt 0.
GenerateSegmentEnter ==
    /\ pc = "call"
    /\ pc' = "generate_segment"
    /\ seg_text' = Truncated(seg_text)
    /\ attempt' = 0
    /\ attempts' = <<>>
    /\ outfile' = None
    /\ UNCHANGED <<estimation, tagging, result, dialogue, seg_index, max_retries,
                   tmpdir, segments, skipped, concat>>

\* One attempt: the synthesizer is run on the output file, raises (exit status,
\* timeout of 60 s) or completes, and has written the file or not.
GenerateSegmentAttempt ==
    /\ pc = "generate_segment"
    /\ attempt <= max_retries
    /\ \E raised \in BOOLEAN :
        \E written \in {<<>>} \cup {SegmentFile(seg_index) :> f : f \in SynthFiles} :
            generate_segment(written @@ tmpdir, SegmentFile(seg_index), raised)
    /\ UNCHANGED <<estimation, tagging, result, dialogue, seg_index, seg_text,
                   max_retries, segments, skipped, concat>>

NextSegment == GenerateSegmentEnter \/ GenerateSegmentAttempt

SpecSegment == InitSegment /\ [][NextSegment]_vars

\* Every run of the synthesizer ends, by its exit or by the timeout, and the
\* checks that follow it are bounded: an attempt that can be made is made.
SpecSegmentLive == SpecSegment /\ WF_vars(NextSegment)

(***************************************************************************)
(* The run specification: main of parse_and_tts.py on the dialogue lines   *)
(* parse_script returned.                                                  *)
(***************************************************************************)
\* Dialogue lines: a speaker of VOICES and a text that is not empty.
DialogueLines ==
    { [speaker |-> "Alex", text |-> <<20>>],
      [speaker |-> "Maya", text |-> <<1200, 1300, 20>>] }

\* Largest number of dialogue lines of a script.
MaxDialogue == 3

InitMain ==
    /\ NoEstimation
    /\ NoTagging
    /\ dialogue \in SeqsUpTo(DialogueLines, MaxDialogue)
    /\ seg_index = 0
    /\ seg_text = <<>>
    /\ max_retries = DefaultMaxRetries
    /\ attempt = 0
    /\ attempts = <<>>
    /\ tmpdir = <<>>
    /\ outfile = None
    /\ segments = <<>>
    /\ skipped = <<>>
    /\ concat = <<>>
    /\ pc = "main"
    /\ result = None

\* main up to its loop (lines 141-156): a script without dialogue ends the
\* program with status 1; else the silence is written to a new directory.
MainStart ==
    /\ pc = "main"
    /\ IF dialogue = <<>>
       THEN /\ pc' = "done"
            /\ result' = [op |-> "main", exc |-> "SystemExit", value |-> 1,
                          calls |-> <<>>]
            /\ UNCHANGED tmpdir
       ELSE /\ pc' = "loop"
            /\ tmpdir' = "silence.mp3" :> [file_size |-> 1000, duration |-> 2]
            /\ UNCHANGED result
    /\ UNCHANGED <<estimation, tagging, dialogue, seg_index, seg_text, max_retries,
                   attempt, attempts, outfile, segments, skipped, concat>>

\* The loop takes the next line and calls generate_segment on it (line 160).
MainCall ==
    /\ pc = "loop"
    /\ seg_index < Len(dialogue)
    /\ pc' = "call"
    /\ seg_text' = dialogue[seg_index + 1].text
    /\ max_retries' = DefaultMaxRetries
    /\ UNCHANGED <<estimation, tagging, result, dialogue, seg_index, attempt,
                   attempts, tmpdir, outfile, segments, skipped, concat>>

\* The loop takes what generate_segment returned (lines 161-165): the file goes
\* to the segments, or the index of the line to the skipped.
MainTake ==
    /\ pc = "returned"
    /\ IF outfile # None /\ outfile \in DOMAIN tmpdir
       THEN segments' = Append(segments, outfile) /\ UNCHANGED skipped
       ELSE skipped' = Append(skipped, seg_index) /\ UNCHANGED segments
    /\ seg_index' = seg_index + 1
    /\ pc' = IF seg_index + 1 < Len(dialogue) THEN "loop" ELSE "concat"
    /\ UNCHANGED <<estimation, tagging, result, dialogue, seg_text, max_retries,
                   attempt, attempts, tmpdir, outfile, concat>>

\* main after its loop (lines 167-191): the concatenation file is written and
\* handed to ffmpeg; the statistics of the output raise when ffmpeg left none,
\* else the directory is removed.
MainConcat ==
    /\ pc = "concat"
    /\ pc' = "done"
    /\ concat' = ConcatLines(segments, 1)
    /\ \E produced \in BOOLEAN :
        /\ result' = [op |-> "main",
                      exc |-> IF produced THEN None ELSE "FileNotFoundError",
                      value |-> Len(segments), calls |-> <<>>]
        /\ tmpdir' = IF produced THEN <<>> ELSE tmpdir
    /\ UNCHANGED <<estimation, tagging, dialogue, seg_index, seg_text, max_retries,
                   attempt, attempts, outfile, segments, skipped>>

NextMain ==
    \/ MainStart
    \/ MainCall
    \/ GenerateSegmentEnter
    \/ GenerateSegmentAttempt
    \/ MainTake
    \/ MainConcat

SpecMain == InitMain /\ [][NextMain]_vars

(***************************************************************************)
(* Properties of calculate_chapter_times (timing specification).           *)
(***************************************************************************)
\* A call of calculate_chapter_times has ended.
ChaptersDone == pc = "done" /\ result.op = "calculate_chapter_times"

\* The sum of floor(segment_count_j * duration / total) over the first n sections,
\* in exact integer arithmetic.
RECURSIVE ExactFloorSum(_, _, _, _)
ExactFloorSum(secs, n, total, duration) ==
    IF n = 0 THEN 0
    ELSE ExactFloorSum(secs, n - 1, total, duration)
         + (secs[n].segment_count * duration) \div total

\* C1: for a non-empty section list with total_segments > 0 the call returns one
\* chapter per section in document order; the first chapter starts at 0, chapter
\* i+1 starts where chapter i ends, and the last chapter ends at the total duration.
C1_ChaptersCoverDuration ==
    (ChaptersDone /\ sections # <<>> /\ total_segments(sections) > 0) =>
        /\ result.exc = None
        /\ Len(result.value) = Len(sections)
        /\ \A i \in 1..Len(sections) : result.value[i].title = sections[i].title
        /\ result.value[1].start_ms = 0
        /\ \A i \in 1..(Len(sections) - 1) :
                result.value[i + 1].start_ms = result.value[i].end_ms
        /\ result.value[Len(sections)].end_ms = total_duration_ms

\* C1 witness: three sections of one segment each over 100 ms; the truncated
\* shares sum to 99 and the last chapter is stretched to 100.
C1_Witness ==
    /\ ChaptersDone
    /\ Len(sections) = 3
    /\ \A i \in 1..3 : sections[i].segment_count = 1
    /\ total_duration_ms = 100
    /\ result.exc = None
    /\ result.value[3].start_ms = 66
    /\ result.value[3].end_ms = 100

\* C2: for a section list with total_segments = 0 (empty, or every section with
\* segment_count 0) the call returns an empty chapter list and does not raise.
C2_ZeroTotalGivesEmptyChapters ==
    (ChaptersDone /\ total_segments(sections) = 0) =>
        /\ result.exc = None
        /\ result.value = <<>>

\* C7: with total_segments > 0 every returned chapter has 0 <= start_ms <= end_ms,
\* the last one included.
C7_ChapterBoundsOrdered ==
    (ChaptersDone /\ total_segments(sections) > 0) =>
        /\ result.exc = None
        /\ \A i \in 1..Len(result.value) :
                /\ 0 <= result.value[i].start_ms
                /\ result.value[i].start_ms <= result.value[i].end_ms

\* C7 witness: the shares of the sections before the last add up to the whole
\* duration less the truncation loss, and the last chapter is empty or nearly so.
C7_Witness ==
    /\ ChaptersDone
    /\ Len(sections) = 3
    /\ sections[1].segment_count = 1
    /\ sections[2].segment_count = 2
    /\ sections[3].segment_count = 0
    /\ total_duration_ms = 100
    /\ result.exc = None
    /\ result.value[3].start_ms = 99
    /\ result.value[3].end_ms = 100

\* C8: with total_segments > 0 the start_ms of section i is the sum over the earlier
\* sections j of floor(segment_count_j * total_duration_ms / total_segments); for
\* segment counts [1, 3] and 8000 ms the chapters are (0, 2000) and (2000, 8000).
C8_StartIsSumOfExactFloors ==
    (ChaptersDone /\ total_segments(sections) > 0) =>
        /\ result.exc = None
        /\ \A i \in 1..Len(result.value) :
                result.value[i].start_ms
                    = ExactFloorSum(sections, i - 1, total_segments(sections),
                                    total_duration_ms)
        /\ (/\ Len(sections) = 2
            /\ sections[1].segment_count = 1
            /\ sections[2].segment_count = 3
            /\ total_duration_ms = 8000) =>
                /\ result.value[1].start_ms = 0
                /\ result.value[1].end_ms = 2000
                /\ result.value[2].start_ms = 2000
                /\ result.value[2].end_ms = 8000

\* C9 as stated: with total_segments > 0 a section with segment_count 0 has
\* end_ms = start_ms wherever it stands, the last place included.
C9_ZeroSectionIsEmptyEverywhere ==
    (ChaptersDone /\ total_segments(sections) > 0) =>
        \A i \in 1..Len(result.value) :
            sections[i].segment_count = 0 =>
                result.value[i].end_ms = result.value[i].start_ms

\* C9 amended: with total_segments > 0 a section with segment_count 0 that is not
\* the last one has end_ms = start_ms; in the last place its end_ms is the total
\* duration, which is at least its start_ms.
C9_ZeroSectionIsEmptyUnlessLast ==
    (ChaptersDone /\ total_segments(sections) > 0) =>
        \A i \in 1..Len(result.value) :
            sections[i].segment_count = 0 =>
                IF i < Len(result.value)
                THEN result.value[i].end_ms = result.value[i].start_ms
                ELSE /\ result.value[i].end_ms = total_duration_ms
                     /\ result.value[i].end_ms >= result.value[i].start_ms

\* C9 witness: two sections of one segment and a last section without segments
\* over 1 ms; both shares truncate to 0 and the last chapter is (0, 1).
C9_Witness ==
    /\ ChaptersDone
    /\ Len(sections) = 3
    /\ sections[1].segment_count = 1
    /\ sections[2].segment_count = 1
    /\ sections[3].segment_count = 0
    /\ total_duration_ms = 1
    /\ result.exc = None
    /\ result.value[2].end_ms = result.value[2].start_ms
    /\ result.value[3].start_ms = 0
    /\ result.value[3].end_ms = 1

(***************************************************************************)
(* Properties of the loader and the resolvers (resolution specification).  *)
(***************************************************************************)
\* A call of the named function has ended.
Done(op) == pc = "done" /\ result.op = op

\* A date was passed (None and the empty string are no date).
DateSupplied == date_str # None /\ date_str # ""

\* The functions called during the call that ended.
Called == {result.calls[i] : i \in 1..Len(result.calls)}

\* The objects of the side file that carry a title and an integer timestamp_ms.
LoadableItems ==
    IF side_file.state # "array" THEN {}
    ELSE {i \in 1..Len(side_file.items) :
            /\ "title" \in DOMAIN side_file.items[i]
            /\ "timestamp_ms" \in DOMAIN side_file.items[i]
            /\ side_file.items[i]["timestamp_ms"].type = "int"}

\* The timestamp strings the side file can give.
SideFileStamps ==
    {FormatMMSS(side_file.items[i]["timestamp_ms"].v) : i \in LoadableItems}

\* The timestamp strings of the positions inside the audio.
EstimateStamps == {FormatMMSS(1000 * sec) : sec \in 0..(total_duration_ms \div 1000)}

\* The timestamp strings in the value a resolver returned.
ReturnedStamps ==
    IF result.op = "extract_timestamps"
    THEN {result.value[i].timestamp_str : i \in 1..Len(result.value)}
    ELSE (IF DEEP \in DOMAIN result.value
          THEN {result.value[DEEP][i] : i \in 1..Len(result.value[DEEP])}
          ELSE {})
         \cup (IF QUICK \in DOMAIN result.value THEN {result.value[QUICK]} ELSE {})

\* C3: for a section list with total_segments = 0 the timestamp estimators return
\* an empty result without dividing: calculate_proportional_timestamps the empty
\* list, the estimation path of get_paper_timestamps the empty mapping.
C3_ZeroTotalGivesEmptyTimestamps ==
    total_segments(sections) = 0 =>
        /\ Done("calculate_proportional_timestamps") =>
                result.exc = None /\ result.value = <<>>
        /\ (Done("get_paper_timestamps") /\ "parse_script_sections" \in Called) =>
                result.exc = None /\ DOMAIN result.value = {}

\* C3 witness: two sections without dialogue over 8000 ms, resolved to the empty
\* mapping by the estimation path.
C3_Witness ==
    /\ Done("get_paper_timestamps")
    /\ Len(sections) = 2
    /\ total_segments(sections) = 0
    /\ total_duration_ms = 8000
    /\ "parse_script_sections" \in Called
    /\ result.exc = None
    /\ DOMAIN result.value = {}

\* C4: extract_timestamps calls the loader first when a date is supplied; when the
\* loader returns at least one entry the result is the loader's list and neither
\* the section parser nor the proportional estimator is called; in every other
\* case the result is the proportional estimate of the parsed script.
C4_PreciseFirstElseEstimate ==
    Done("extract_timestamps") =>
        LET loaded == load_precise_timestamps(date_str, side_file)
        IN  /\ result.exc = None
            /\ DateSupplied => (result.calls # <<>>
                                /\ result.calls[1] = "load_precise_timestamps")
            /\ IF DateSupplied /\ ~loaded.none /\ Len(loaded.list) >= 1
               THEN /\ result.value = loaded.list
                    /\ "parse_script_sections" \notin Called
                    /\ "calculate_proportional_timestamps" \notin Called
               ELSE /\ result.value
                        = calculate_proportional_timestamps(sections, total_duration_ms)
                    /\ "parse_script_sections" \in Called
                    /\ "calculate_proportional_timestamps" \in Called

\* C4 witness: a date, a side file of two loadable objects, and the two entries
\* returned in file order without parsing the script.
C4_Witness ==
    /\ Done("extract_timestamps")
    /\ DateSupplied
    /\ Len(sections) >= 1
    /\ side_file.state = "array"
    /\ Len(side_file.items) = 2
    /\ Len(result.value) = 2
    /\ result.value[1].timestamp_str = "01:30"
    /\ result.value[2].timestamp_str = "01:00"
    /\ result.calls = <<"load_precise_timestamps">>

\* The timestamps of the objects from the i-th on that carry a paper_name.
RECURSIVE PaperStamps(_, _)
PaperStamps(items, i) ==
    IF i > Len(items) THEN <<>>
    ELSE (IF "paper_name" \in DOMAIN items[i]
          THEN <<FormatMMSS(items[i]["timestamp_ms"].v)>>
          ELSE <<>>)
         \o PaperStamps(items, i + 1)

\* C5: in get_paper_timestamps, when a date is supplied and the side file holds
\* entries carrying a paper_name, these populate the deep-dive list in file order
\* (one entry at 90000 ms gives <<"01:30">>) and the estimation path is not run.
C5_PreciseEntriesPopulateDeepDives ==
    (/\ Done("get_paper_timestamps")
     /\ DateSupplied
     /\ side_file.state = "array"
     /\ LoadableItems = 1..Len(side_file.items)
     /\ \E i \in LoadableItems : "paper_name" \in DOMAIN side_file.items[i]) =>
        /\ DEEP \in DOMAIN result.value
        /\ result.value[DEEP] = PaperStamps(side_file.items, 1)
        /\ "parse_script_sections" \notin Called

\* C6: a call of get_paper_timestamps or extract_timestamps never returns a mix:
\* all timestamps of the returned value come from the side file, or all come from
\* the estimator (the two sets of strings are disjoint for the inputs drawn).
C6_NeverMixesSources ==
    (Done("get_paper_timestamps") \/ Done("extract_timestamps")) =>
        /\ SideFileStamps \cap EstimateStamps = {}
        /\ \/ ReturnedStamps \subseteq SideFileStamps
           \/ ReturnedStamps \subseteq EstimateStamps

\* C6 witness: the side file gives a paper entry and a quick-hits marker, the
\* script has a deep dive and no quick-hits section; the estimated deep-dive
\* timestamp is returned without the side file's marker.
C6_Witness ==
    /\ Done("get_paper_timestamps")
    /\ DateSupplied
    /\ LoadableItems = {1, 2}
    /\ \E i \in LoadableItems : "is_quick_hits" \in DOMAIN side_file.items[i]
    /\ \E i \in LoadableItems : "paper_name" \in DOMAIN side_file.items[i]
    /\ \A i \in 1..Len(sections) : ~sections[i].is_quick_hits
    /\ total_duration_ms = 8000
    /\ DEEP \in DOMAIN result.value
    /\ result.value[DEEP] # <<>>
    /\ QUICK \notin DOMAIN result.value

\* C10: when the side file does not exist, cannot be read or is not well-formed
\* JSON, load_precise_timestamps returns None (no list, no exception) and the
\* resolver that called it returns the proportional estimate.
C10_LoaderFailureGivesNoneAndFallback ==
    side_file.state \in {"absent", "unreadable", "malformed"} =>
        /\ Done("load_precise_timestamps") =>
                result.exc = None /\ result.value.none
        /\ (Done("extract_timestamps") /\ DateSupplied) =>
                /\ result.exc = None
                /\ result.value
                    = calculate_proportional_timestamps(sections, total_duration_ms)
                /\ result.calls = <<"load_precise_timestamps", "parse_script_sections",
                                    "calculate_proportional_timestamps">>
        /\ (Done("get_paper_timestamps") /\ DateSupplied) =>
                /\ result.exc = None
                /\ result.value
                    = EstimatePaperTimestamps(sections, total_duration_ms, <<>>).value
                /\ result.calls = <<"load_precise_timestamps", "parse_script_sections",
                                    "MP3">>

\* C10 witness: a date whose side file is not well-formed JSON, and the estimate
\* of a script with dialogue returned by extract_timestamps.
C10_Witness ==
    /\ Done("extract_timestamps")
    /\ DateSupplied
    /\ side_file.state = "malformed"
    /\ total_segments(sections) > 0
    /\ total_duration_ms = 8000
    /\ result.value # <<>>
    /\ result.calls[1] = "load_precise_timestamps"

(***************************************************************************)
(* Properties of load_precise_timestamps (loader specification).           *)
(***************************************************************************)
\* The objects of the side file that carry both title and timestamp_ms.
CompleteItems ==
    {i \in 1..Len(side_file.items) :
        /\ "title" \in DOMAIN side_file.items[i]
        /\ "timestamp_ms" \in DOMAIN side_file.items[i]}

\* The position, among the objects of S, of the object at index i.
Rank(S, i) == Cardinality({j \in S : j <= i})

\* The loader returned a list with one entry per object of CompleteItems, in
\* file order, each with the object's title and its timestamp as MM:SS.
OneEntryPerCompleteItem ==
    /\ result.exc = None
    /\ ~result.value.none
    /\ Len(result.value.list) = Cardinality(CompleteItems)
    /\ \A i \in CompleteItems :
        LET entry == result.value.list[Rank(CompleteItems, i)]
        IN  /\ entry.title = side_file.items[i]["title"].v
            /\ entry.timestamp_str = FormatMMSS(side_file.items[i]["timestamp_ms"].v)

Qualifies(section) ==
    \/ section.paper_name # None
    \/ /\ section.segment_count >= 2
       /\ ~section.is_quick_hits
       /\ section.title \notin {"Cold Open", "Outro", "Wrap-Up", "INTRO", "WRAP-UP"}

QualifyingSections == {i \in 1..Len(sections) : Qualifies(sections[i])}

\* The estimated start of the i-th section: the truncated shares before it.
RECURSIVE StartOf(_)
StartOf(i) ==
    IF i = 1 THEN 0
    ELSE StartOf(i - 1)
         + segment_duration(sections[i - 1].segment_count, total_segments(sections),
                            total_duration_ms)

MsOf(i) == side_file.items[i]["timestamp_ms"].v

\* C13: for every millisecond value ms >= 0 the MM:SS formatting gives
\* 0 <= seconds <= 59 and minutes * 60 + seconds = ms // 1000: the string is the
\* whole seconds of ms split at 60, and the minutes are not capped (one hundred
\* minutes and more take three digits).
C13_FormattedFieldsRebuildWholeSeconds ==
    (/\ Done("load_precise_timestamps")
     /\ DateSupplied
     /\ CompleteItems = LoadableItems) =>
        \A i \in CompleteItems :
            LET ms == MsOf(i)
                whole == ms \div 1000
                entry == result.value.list[Rank(CompleteItems, i)]
            IN  /\ ms >= 0
                /\ Seconds(ms) \in 0..59
                /\ Minutes(ms) * 60 + Seconds(ms) = whole
                /\ (Minutes(ms) * 60 + Seconds(ms)) * 1000 <= ms
                /\ ms < (Minutes(ms) * 60 + Seconds(ms) + 1) * 1000
                /\ entry.timestamp_str
                    = Pad2(whole \div 60) \o ":" \o Pad2(whole % 60)
                /\ ms >= 6000000 => Len(entry.timestamp_str) = 6

\* C13 witness: 7259999 ms, one millisecond short of 121 minutes, is loaded as
\* "120:59".
C13_Witness ==
    /\ Done("load_precise_timestamps")
    /\ DateSupplied
    /\ Len(side_file.items) = 1
    /\ CompleteItems = {1}
    /\ LoadableItems = {1}
    /\ MsOf(1) = 7259999
    /\ ~result.value.none
    /\ result.value.list[1].timestamp_str = "120:59"

(***************************************************************************)
(* Properties of parse_script_sections (parser specification).             *)
(***************************************************************************)
\* The line of a text that starts at position i, without its line break.
LineAt(text, i) == Slice(text, i, RunEndNot(text, i, {"\n"}) - 1)

\* A line of the form "### SEGMENT: PAPER <n> - <title>".
IsSegmentPaperLine(line) ==
    /\ AtLit(line, 1, "### SEGMENT: PAPER ")
    /\ LET d == RunEnd(line, 20, Digit)
       IN  d > 20 /\ AtLit(line, d, " - ") /\ Len(line) >= d + 3

\* A line that is "## Deep Dives" and nothing else but white space at its end.
IsDeepDivesLine(line) == AtLit(line, 1, "##") /\ Strip(line) = "## Deep Dives"

HasSegmentPaperLine ==
    \E i \in LineStarts(content) : IsSegmentPaperLine(LineAt(content, i))

HasDeepDivesLine ==
    \E i \in LineStarts(content) : IsDeepDivesLine(LineAt(content, i))

\* C14: the dialect is chosen by a fixed priority: a script with a line "###
\* SEGMENT: PAPER <n> - <title>" is parsed by the segment-header strategy, also
\* when it has a "## Deep Dives" line; else a script with a line that is exactly
\* "## Deep Dives" is parsed by the block-with-dividers strategy; else the
\* standard-headers strategy is used.
C14_DialectPriority ==
    Done("parse_script_sections") =>
        IF HasSegmentPaperLine
        THEN /\ result.calls = <<"_parse_segment_format">>
             /\ result.value = parse_segment_format(content)
        ELSE IF HasDeepDivesLine
        THEN /\ result.calls = <<"_parse_deep_dives_block">>
             /\ result.value = parse_deep_dives_block(content)
        ELSE /\ result.calls = <<"_parse_standard_sections">>
             /\ result.value = parse_standard_sections(content)

\* C14 witness: a "## Deep Dives" header followed by a segment header with one
\* dialogue line; the segment-header strategy gives its one section.
C14_Witness ==
    /\ Done("parse_script_sections")
    /\ content = JoinLines(<<"## Deep Dives",
                             "### SEGMENT: PAPER 1 - Attention (5 min)",
                             "**Alex**: hi">>)
    /\ result.calls = <<"_parse_segment_format">>
    /\ result.value = <<[title |-> "SEGMENT: PAPER 1 - Attention",
                         segment_count |-> 1,
                         paper_name |-> "Attention (5 min)",
                         is_quick_hits |-> FALSE]>>

\* The marker of the header lines of the strategy that was called.
HeaderMarker ==
    IF result.calls = <<"_parse_segment_format">> THEN "### " ELSE "## "

\* A section can come from a line: a header line whose text starts with the
\* section's title or, in the block-with-dividers strategy, a dialogue line of a
\* block, holding the paper name when the section is titled by it.
ComesFrom(section, line) ==
    \/ /\ AtLit(line, 1, HeaderMarker)
       /\ AtLit(Strip(Slice(line, Len(HeaderMarker) + 1, Len(line))), 1,
                section.title)
    \/ /\ result.calls = <<"_parse_deep_dives_block">>
       /\ ~AtLit(line, 1, "## ")
       /\ CountTags(line) >= 1
       /\ \/ section.title = "Deep Dive"
          \/ \E i \in 1..Len(line) : AtLit(line, i, section.title)

\* The sections come from lines of the script that follow each other in the
\* order of the sections.
InDocumentOrder ==
    \E from \in [1..Len(result.value) -> LineStarts(content)] :
        /\ \A k \in 1..Len(result.value) :
                ComesFrom(result.value[k], LineAt(content, from[k]))
        /\ \A k \in 1..(Len(result.value) - 1) : from[k] < from[k + 1]

\* C15: parse_script_sections is total: for every text it returns a list of
\* sections without raising, each with segment_count >= 0, in document order; a
\* text with none of the dialect markers and no "## " header gives the empty list
\* by the standard-headers strategy.
C15_ParserIsTotal ==
    Done("parse_script_sections") =>
        /\ result.exc = None
        /\ DOMAIN result.value = 1..Len(result.value)
        /\ \A k \in 1..Len(result.value) : result.value[k].segment_count >= 0
        /\ InDocumentOrder
        /\ (/\ ~HasSegmentPaperLine
            /\ ~HasDeepDivesLine
            /\ \A i \in LineStarts(content) : ~AtLit(content, i, "## ")) =>
                /\ result.value = <<>>
                /\ result.calls = <<"_parse_standard_sections">>

\* C15 witness: a text of two lines without a header, parsed to the empty list by
\* the standard-headers strategy.
C15_Witness ==
    /\ Done("parse_script_sections")
    /\ content = JoinLines(<<"plain text", "**Alex**: hi">>)
    /\ result.exc = None
    /\ result.value = <<>>
    /\ result.calls = <<"_parse_standard_sections">>

\* The number of lines of a body that begin with a speaker tag and a colon.
TaggedLines(body) == Cardinality({i \in LineStarts(body) : TagAt(body, i)})

\* C16: in the standard-headers and the segment-header strategy the segment_count
\* of a section is the number of lines of its body that begin with a bold speaker
\* tag followed by a colon: a line without a tag at its start counts 0 and a line
\* counts at most once.
C16_SegmentCountIsTaggedLines ==
    (/\ Done("parse_script_sections")
     /\ result.calls # <<"_parse_deep_dives_block">>) =>
        LET parts == PartsAfterFirst(content, HeaderMarker)
        IN  /\ Len(result.value) = Len(parts)
            /\ \A k \in 1..Len(parts) :
                    result.value[k].segment_count = TaggedLines(BodyOfPart(parts[k]))

\* The header text of the k-th section of the standard-headers strategy.
HeaderText(k) == TitleOfPart(PartsAfterFirst(content, "## ")[k])

StandardDone ==
    /\ Done("parse_script_sections")
    /\ result.calls = <<"_parse_standard_sections">>

\* C17: in the standard-headers strategy the header "Deep Dive 2 (3
\* min): Scaling Laws for Retrieval" gives the title "Deep Dive 2: Scaling Laws for
\* Retrieval", the duration annotation removed, and the paper name "Scaling Laws
\* for Retrieval".
C17_AnnotationRemovedFromTitle ==
    StandardDone =>
        \A k \in 1..Len(result.value) :
            HeaderText(k) = "Deep Dive 2 (3 min): Scaling Laws for Retrieval" =>
                /\ result.value[k].title = "Deep Dive 2: Scaling Laws for Retrieval"
                /\ result.value[k].paper_name = "Scaling Laws for Retrieval"

(***************************************************************************)
(* Properties of the block-with-dividers strategy (block specification).   *)
(* The blocks are found again line by line: a block is a run of lines      *)
(* under a "Deep Dives" header between two dividers or headers.            *)
(***************************************************************************)
IsTopHeader(line) == AtLit(line, 1, "## ")

\* A line of three hyphens or more and nothing else.
IsDivider(line) == Len(line) >= 3 /\ \A j \in 1..Len(line) : Ch(line, j) = "-"

\* The line at position i starts a run of lines: it is neither header nor divider
\* and the line before it is one of the two.
StartsRun(i) ==
    /\ ~IsTopHeader(LineAt(content, i))
    /\ ~IsDivider(LineAt(content, i))
    /\ \E h \in LineStarts(content) :
        /\ h < i
        /\ IsTopHeader(LineAt(content, h)) \/ IsDivider(LineAt(content, h))
        /\ h + Len(LineAt(content, h)) + 1 = i

\* The text of the run of lines that starts at position i.
RunText(i) ==
    LET stops == {h \in LineStarts(content) :
                    /\ h > i
                    /\ IsTopHeader(LineAt(content, h)) \/ IsDivider(LineAt(content, h))}
    IN  Slice(content, i, IF stops = {} THEN Len(content) ELSE Min(stops) - 1)

\* The run that starts at position i lies under a "Deep Dives" header.
UnderDeepDives(i) ==
    LET heads == {h \in LineStarts(content) : h < i /\ IsTopHeader(LineAt(content, h))}
    IN  /\ heads # {}
        /\ \E h \in heads :
            /\ \A g \in heads : g <= h
            /\ IsDeepDives(Strip(Slice(LineAt(content, h), 4, Len(LineAt(content, h)))))

\* The runs that give a section: those under "Deep Dives" with a speaker tag.
BlockAnchors ==
    {i \in LineStarts(content) :
        StartsRun(i) /\ UnderDeepDives(i) /\ CountTags(RunText(i)) >= 1}

\* The headers that give a section: all but "Deep Dives".
HeaderAnchors ==
    {h \in LineStarts(content) :
        /\ IsTopHeader(LineAt(content, h))
        /\ ~IsDeepDives(Strip(Slice(LineAt(content, h), 4, Len(LineAt(content, h)))))}

\* The section has a dialogue tag, is not of the quick-hits round, and is titled
\* by its paper name, or "Deep Dive" when it has none.
C18_BlockSection(section, run) ==
    /\ section.segment_count >= 1
    /\ section.segment_count = CountTags(run)
    /\ ~section.is_quick_hits
    /\ \/ section.paper_name # None /\ section.title = section.paper_name
       \/ section.paper_name = None /\ section.title = "Deep Dive"

\* C18: in the block-with-dividers strategy there is one section per block of
\* the "Deep Dives" part that holds a dialogue tag, in the order of the text (the
\* blocks without a tag give none); each has segment_count >= 1, is not flagged
\* quick-hits, and is titled by its inferred paper name, or "Deep Dive" with
\* paper_name None when no name is inferred.
C18_DeepDiveBlocksGiveSections ==
    (/\ Done("parse_script_sections")
     /\ result.calls = <<"_parse_deep_dives_block">>) =>
        LET blocks == BlockAnchors
            anchors == blocks \cup HeaderAnchors
        IN  /\ Len(result.value) = Cardinality(anchors)
            /\ \A i \in blocks :
                C18_BlockSection(result.value[Rank(anchors, i)], RunText(i))

(***************************************************************************)
(* Properties of the show notes (show-notes specification).                *)
(***************************************************************************)
\* The lines of the description.
DescriptionLines ==
    LET starts == SortedSeq(LineStarts(result.value))
    IN  [k \in 1..Len(starts) |-> LineAt(result.value, starts[k])]

\* The papers the description lists: those of the script, those of the digest
\* when the script gives no deep dive.
Listed ==
    IF result.script_path = None \/ script_papers.deep_dives = <<>>
    THEN digest ELSE script_papers

\* The timestamps handed to the builder: the mapping of get_paper_timestamps
\* when there are a script and an audio file, none otherwise.
Handed ==
    IF result.script_path # None /\ result.mp3_path # None
    THEN get_paper_timestamps(sections, total_duration_ms, date_str, side_file).value
    ELSE <<>>

HandedDeepDives == IF DEEP \in DOMAIN Handed THEN Handed[DEEP] ELSE <<>>

\* C19: the deep-dive paper at index i is listed with deep_dive_timestamps[i]
\* in front of its name exactly when i is below the length of that list, and
\* without a timestamp otherwise; of the quick-hit papers only the first one is
\* listed with a timestamp, the quick-hits one, and no quick-hit paper is listed
\* with a deep-dive timestamp.
C19_TimestampsMappedByPosition ==
    (Done("build_episode_description") /\ Listed.deep_dives # <<>>) =>
        LET deep == Listed.deep_dives
            quick == Listed.quick_hits
            lines == DescriptionLines
        IN  /\ \A i \in 0..(Len(deep) - 1) :
                AtLit(lines[4 + i], 1,
                      IF i < Len(HandedDeepDives)
                      THEN Bullet \o " [" \o HandedDeepDives[i + 1] \o "] " \o deep[i + 1]
                      ELSE Bullet \o " " \o deep[i + 1])
            /\ \A j \in 0..(Len(quick) - 1) :
                AtLit(lines[6 + Len(deep) + j], 1,
                      IF j = 0 /\ QUICK \in DOMAIN Handed
                      THEN Bullet \o " [" \o Handed[QUICK] \o "] " \o quick[j + 1]
                      ELSE Bullet \o " " \o quick[j + 1])

\* C19 witness: two deep-dive papers with one deep-dive timestamp and two
\* quick-hit papers with the quick-hits timestamp; the first paper of each list
\* carries its timestamp, the second none.
C19_Witness ==
    /\ Done("build_episode_description")
    /\ Len(HandedDeepDives) = 1
    /\ QUICK \in DOMAIN Handed
    /\ Len(Listed.deep_dives) = 2
    /\ Len(Listed.quick_hits) = 2
    /\ AtLit(DescriptionLines[4], 1, Bullet \o " [00:00] Scaling Laws for Retrieval")
    /\ AtLit(DescriptionLines[5], 1, Bullet \o " Attention Is All You Need")
    /\ AtLit(DescriptionLines[8], 1, Bullet \o " [00:05] Sparse Mixtures of Experts")
    /\ AtLit(DescriptionLines[9], 1, Bullet \o " Tiny Models for Edge Devices")

(***************************************************************************)
(* Properties of create_rss_feed (feed specification).                     *)
(***************************************************************************)
\* The dates of EpisodeFiles a calendar holds, and those it does not.
CalendarDates == {"2026-02-09", "2026-02-10"}

NoCalendarDates == {"2026-02-30", "2026-13-01", "2025-02-29"}

\* The audio files of a date in the episodes directory.
AudioFilesOf(date) ==
    {date \o "-podcast.mp3", date \o "-podcast-v2.mp3"} \cap DOMAIN episodes

\* The positions of the items of a date in the feed.
ItemsOf(date) ==
    {k \in 1..Len(result.value) :
        \E i \in 1..Len(result.value[k].link) :
            AtLit(result.value[k].link, i, "/" \o date \o "/")}

\* C20: an audio file whose date cannot be parsed gives no item and does not
\* end the loop: every date that can be parsed and has an audio file has its
\* item, wherever the other file stands in the batch.
C20_BadDateSkippedOthersKept ==
    Done("create_rss_feed") =>
        /\ \A date \in NoCalendarDates : ItemsOf(date) = {}
        /\ \A date \in CalendarDates :
            AudioFilesOf(date) # {} => Cardinality(ItemsOf(date)) = 1
        /\ Len(result.value) = Cardinality({d \in CalendarDates : AudioFilesOf(d) # {}})

\* C20 witness: audio files of dates no calendar holds stand first, between and
\* last among those of two dates that parse, and the feed has the two items.
C20_Witness ==
    /\ Done("create_rss_feed")
    /\ \A date \in NoCalendarDates : AudioFilesOf(date) # {}
    /\ \A date \in CalendarDates : AudioFilesOf(date) # {}
    /\ Len(result.value) = 2
    /\ Len(result.warnings) = 3
    /\ ItemsOf("2026-02-10") = {1}
    /\ ItemsOf("2026-02-09") = {2}

(***************************************************************************)
(* The two walks side by side (timing specification).                      *)
(***************************************************************************)
\* C22: for the same section list and the same total duration the chapter walk
\* returns a chapter list, the timestamp walk returns as many timestamps as
\* there are chapters, and timestamp i is the MM:SS string of start_ms of
\* chapter i, for every i.
C22_WalksAgree ==
    (ChaptersDone \/ Done("calculate_proportional_timestamps")) =>
        LET chapters == IF ChaptersDone THEN result
                        ELSE calculate_chapter_times(sections, total_duration_ms)
            timestamps == IF ChaptersDone
                          THEN calculate_proportional_timestamps(sections,
                                                                 total_duration_ms)
                          ELSE result.value
        IN  /\ chapters.exc = None
            /\ Len(timestamps) = Len(chapters.value)
            /\ \A i \in 1..Len(timestamps) :
                /\ timestamps[i].title = chapters.value[i].title
                /\ timestamps[i].timestamp_str = FormatMMSS(chapters.value[i].start_ms)

(***************************************************************************)
(* One item per date, the re-upload preferred (feed specification).        *)
(***************************************************************************)
\* The audio file the k-th item of the feed points to: what follows the last
\* "/" of its enclosure url.
ItemFile(k) ==
    LET url == result.value[k].enclosure.url
        slash == CHOOSE i \in 1..Len(url) :
                    /\ Ch(url, i) = "/"
                    /\ \A j \in (i + 1)..Len(url) : Ch(url, j) # "/"
    IN  SubSeq(url, slash + 1, Len(url))

\* C24: the feed holds at most one item per date string, also when both
\* <date>-podcast.mp3 and <date>-podcast-v2.mp3 are in the directory; the item
\* of a date points to the -v2 file whenever that file exists, else to the
\* other; the items stand in descending file name order.
C24_OneItemPerDatePreferV2 ==
    Done("create_rss_feed") =>
        /\ \A j, k \in 1..Len(result.value) :
            j # k => DateOfFile(ItemFile(j)) # DateOfFile(ItemFile(k))
        /\ \A k \in 1..Len(result.value) :
            LET date == DateOfFile(ItemFile(k))
            IN  /\ ItemFile(k) \in DOMAIN episodes
                /\ ItemFile(k) = IF date \o "-podcast-v2.mp3" \in DOMAIN episodes
                                 THEN date \o "-podcast-v2.mp3"
                                 ELSE date \o "-podcast.mp3"
                /\ result.value[k].link = result.value[k].enclosure.url
        /\ \A j, k \in 1..Len(result.value) :
            j < k => StrLess(ItemFile(k), ItemFile(j))

\* C24 witness: both uploads of 9 February and the one of 10 February are in
\* the directory; the feed has the item of the 10th, then the one item of the
\* 9th, which points to the re-upload.
C24_Witness ==
    /\ Done("create_rss_feed")
    /\ {"2026-02-09-podcast.mp3", "2026-02-09-podcast-v2.mp3",
        "2026-02-10-podcast.mp3"} \subseteq DOMAIN episodes
    /\ Len(result.value) = 2
    /\ ItemFile(1) = "2026-02-10-podcast.mp3"
    /\ ItemFile(2) = "2026-02-09-podcast-v2.mp3"

(***************************************************************************)
(* The two parsers side by side (parser specification).                    *)
(***************************************************************************)
\* The titles and segment counts of a section list, in order.
TitlesAndCounts(secs) ==
    [k \in 1..Len(secs) |->
        [title |-> secs[k].title, segment_count |-> secs[k].segment_count]]

\* The strategy the timestamp extractor's parser takes for the script.
Dialect == parse_script_sections(content).calls[1]

\* C23: for every script, in each of the three dialects, the parser of the
\* chapter builder and the parser of the timestamp extractor give the same
\* sequence of section titles and segment counts.
C23_ParsersAgree ==
    (Done("parse_script_sections") \/ Done("add_chapters.parse_script_sections")) =>
        LET extracted == IF Done("parse_script_sections") THEN result.value
                         ELSE parse_script_sections(content).value
            chaptered == IF Done("parse_script_sections")
                         THEN add_chapters_parse_script_sections(content)
                         ELSE result.value
        IN  TitlesAndCounts(extracted) = chaptered

(***************************************************************************)
(* Properties of validate_segment (validation specification).              *)
(***************************************************************************)
\* The file validate_segment is called on.
Validated == tmpdir[SegmentFile(seg_index)]

\* The duration, in quarters of a second, is below max(0.5 s, text_len / 25 s).
BelowExpectedMin(duration, text_len) == duration < 2 \/ 25 * duration < 4 * text_len

\* The byte rate is outside [2000, 100000] bytes per second.
RateOutside(file_size, duration) ==
    4 * file_size < 2000 * duration \/ 4 * file_size > 100000 * duration

\* C27: validate_segment reports a segment invalid when its file is missing,
\* is under 1000 bytes, lasts less than max(0.5 s, text_len / 25 s), has a byte
\* rate outside [2000, 100000] bytes per second, or lasts more than both 30 s
\* and text_len / 5 s; it reports every other segment valid.
C27_ValidExactlyWhenNoCheckFails ==
    Done("validate_segment") =>
        (result.value.is_valid <=>
            /\ SegmentFile(seg_index) \in DOMAIN tmpdir
            /\ Validated.file_size >= 1000
            /\ ~BelowExpectedMin(Validated.duration, TextLen(seg_text))
            /\ ~RateOutside(Validated.file_size, Validated.duration)
            /\ ~(Validated.duration > 120
                 /\ 5 * Validated.duration > 4 * TextLen(seg_text)))

(***************************************************************************)
(* Properties of generate_segment (segment specification).                 *)
(***************************************************************************)
\* The k-th attempt completed and its file passed validate_segment.
Succeeded(k) == ~attempts[k].raised /\ attempts[k].is_valid

\* The synthesizer is not run more than max_retries + 1 times, and not again
\* after an attempt that succeeded.
BoundedAttempts ==
    /\ Len(attempts) <= max_retries + 1
    /\ \A k \in 1..(Len(attempts) - 1) : ~Succeeded(k)
    /\ pc = "generate_segment" => \A k \in 1..Len(attempts) : ~Succeeded(k)

\* What generate_segment returns: the path of the file of the attempt that
\* succeeded, which is in the directory and sound, or None, and None exactly
\* when max_retries + 1 attempts were made and all failed.
ReturnsFirstSuccess ==
    pc = "returned" =>
        /\ attempts # <<>>
        /\ outfile # None =>
            /\ outfile = SegmentFile(seg_index)
            /\ Succeeded(Len(attempts))
            /\ validate_segment(tmpdir, outfile, TextLen(seg_text)).is_valid
        /\ outfile = None <=>
            /\ Len(attempts) = max_retries + 1
            /\ \A k \in 1..Len(attempts) : ~Succeeded(k)

\* C21: whatever the synthesizer and the validation come to at each attempt,
\* generate_segment runs the synthesizer at most max_retries + 1 times, stops at
\* the first attempt that completes and passes validate_segment and returns the
\* path of its file, returns None exactly when all max_retries + 1 attempts
\* failed, and always returns.
C21_RetriesBoundedAndReturn ==
    /\ [](BoundedAttempts /\ ReturnsFirstSuccess)
    /\ <>(pc = "returned")

\* C21 witness: with two retries the synthesizer raised at the first attempt,
\* left a file that was rejected at the second and a sound one at the third,
\* which is returned.
C21_Witness ==
    /\ pc = "returned"
    /\ max_retries = 2
    /\ Len(attempts) = 3
    /\ attempts[1].raised
    /\ ~attempts[2].raised /\ ~attempts[2].is_valid
    /\ Succeeded(3)
    /\ outfile = "seg_0012.mp3"

(***************************************************************************)
(* Properties of main of parse_and_tts.py (run specification).             *)
(***************************************************************************)
\* The lines taken so far are split between the segments and the skipped, both
\* in script order: the segments are the files of the lines not skipped.
SegmentsInScriptOrder ==
    LET kept == SortedSeq({i \in 0..(Len(segments) + Len(skipped) - 1) :
                              \A k \in 1..Len(skipped) : skipped[k] # i})
    IN  /\ \A j, k \in 1..Len(skipped) : j < k => skipped[j] < skipped[k]
        /\ \A k \in 1..Len(skipped) : skipped[k] < Len(segments) + Len(skipped)
        /\ segments = [k \in 1..Len(kept) |-> SegmentFile(kept[k])]

\* The concatenation list, once written: the segments in their order, one
\* silence between each two and none at either end.
ConcatInterleaved ==
    (Done("main") /\ result.exc # "SystemExit") =>
        /\ Len(segments) + Len(skipped) = Len(dialogue)
        /\ Len(concat) = IF segments = <<>> THEN 0 ELSE 2 * Len(segments) - 1
        /\ \A k \in 1..Len(segments) : concat[2 * k - 1] = segments[k]
        /\ \A k \in 1..(Len(segments) - 1) : concat[2 * k] = "silence.mp3"
        /\ \A k \in 1..Len(skipped), j \in 1..Len(concat) :
            concat[j] # SegmentFile(skipped[k])

\* What the loop does with the value generate_segment returned: None sends the
\* index of the line to the skipped list and nothing to the segments; a path is
\* the file of the line and goes to the segments.
TakesReturnedValue ==
    MainTake =>
        IF outfile = None
        THEN skipped' = Append(skipped, seg_index) /\ segments' = segments
        ELSE /\ outfile = SegmentFile(seg_index)
             /\ segments' = Append(segments, outfile)
             /\ skipped' = skipped

\* C25: the concatenation list of main holds the segments that were generated,
\* in script order, with exactly one silence between each two consecutive
\* segments and none before the first or after the last (2n - 1 entries for
\* n >= 1 segments); a line whose generation returned None is in the skipped
\* list and never in the concatenation list.
C25_ConcatListInterleavesSilence ==
    /\ [](SegmentsInScriptOrder /\ ConcatInterleaved)
    /\ [][TakesReturnedValue]_vars

\* C25 witness: of three lines the second was given up after three attempts;
\* the list holds the first segment, one silence and the third segment.
C25_Witness ==
    /\ Done("main")
    /\ Len(dialogue) = 3
    /\ skipped = <<1>>
    /\ segments = <<"seg_0000.mp3", "seg_0002.mp3">>
    /\ concat = <<"seg_0000.mp3", "silence.mp3", "seg_0002.mp3">>

(***************************************************************************)
(* Properties of add_chapters_to_mp3 (tagging specification).              *)
(***************************************************************************)
\* The frames of a tag set whose key starts with a prefix, in their order.
RECURSIVE FramesOf(_, _)
FramesOf(frames, prefix) ==
    IF frames = <<>> THEN <<>>
    ELSE (IF AtLit(frames[1].key, 1, prefix) THEN <<frames[1]>> ELSE <<>>)
         \o FramesOf(Tail(frames), prefix)

\* After a call the tags hold one chapter frame per chapter, with ids chp0,
\* chp1, ... and the times and titles of the chapters, in chapter order, and
\* one table of contents that lists these ids in that order.
ChapterFramesReplaced ==
    Done("add_chapters_to_mp3") =>
        /\ ~tags.none
        /\ FramesOf(tags.frames, "CHAP") =
            [i \in 1..Len(mp3_chapters) |-> CHAP(ChapId(i - 1), mp3_chapters[i])]
        /\ FramesOf(tags.frames, "CTOC") =
            <<CTOC([i \in 1..Len(mp3_chapters) |-> ChapId(i - 1)])>>

\* A call leaves the frames of other kinds as they were, and a call after the
\* first leaves the whole tag set as it was.
OtherTagsKept ==
    AddChaptersToMp3 =>
        /\ WithoutChapterFrames(tags'.frames) = WithoutChapterFrames(tags.frames)
        /\ pc = "done" => tags' = tags

\* C26: add_chapters_to_mp3 replaces the chapter tags: after a call with n
\* chapters the tag set holds exactly n CHAP frames, chp0..chp(n-1) in chapter
\* order, and exactly one CTOC frame listing those ids in that order, whatever
\* CHAP and CTOC frames were there before; tags of other kinds are unchanged;
\* a second call with the same chapters gives the tag set of the first.
C26_ChapterTagsReplaced ==
    /\ []ChapterFramesReplaced
    /\ [][OtherTagsKept]_vars

\* C26 witness: the file had a title, chapter 0 and a table of contents of an
\* earlier run; two calls with two chapters were made, and the tags are the
\* title, the two chapters and the new table of contents.
C26_Witness ==
    /\ Done("add_chapters_to_mp3")
    /\ Len(result.calls) = 2
    /\ Len(mp3_chapters) = 2
    /\ Len(tags.frames) = 4
    /\ tags.frames[1].key = "TIT2"
    /\ tags.frames[2] = CHAP("chp0", mp3_chapters[1])
    /\ tags.frames[3].key = "CHAP:chp1"
    /\ tags.frames[4].child_element_ids = <<"chp0", "chp1">>

====
